---- MODULE Spec2Model ----
(***************************************************************************)
(* Session store and Claude-directory synchronisation of the extension.    *)
(*                                                                         *)
(* The repository carries two implementations of SessionManager: the       *)
(* monolithic src/session-manager.ts ("mono") and the modular one built    *)
(* from ProjectManager / SessionDataManager / ClaudeSyncManager ("mod").   *)
(* The variable impl says which of the two a behaviour runs.               *)
(*                                                                         *)
(* Paths and names are sequences of one-character strings, timestamps are  *)
(* instants (positive integers), ids are integers: ids made by uuidv4()    *)
(* are small integers never seen in the state, ids supplied by callers are *)
(* 101 and above.                                                          *)
(***************************************************************************)
EXTENDS Integers, Sequences, FiniteSets, TLC

----------------------------------------------------------------------------
(* Bounds of the model *)

\* the short message texts of the naming specification have up to this many characters
MaxShort == 4
\* the long message texts exceed the 50 characters of a name by up to this many
MaxOver == 2
\* the Store of the query specification holds at most this many Projects
MaxListed == 2
\* addProject is offered while the Store holds fewer Projects than this
MaxProjects == 2
\* addSession is offered while the Store holds fewer Sessions than this
MaxSessions == 2
\* the external tool keeps at most this many session files in folder F1
MaxFiles == 2
\* largest number of session files of the folder of the file-cap specification
MaxCapFiles == 22
\* modification times of the files of the file-cap specification are 1..MaxMtime
MaxMtime == 23

\* loadMoreSessions calls for one project
MaxMore == 2

\* Sessions of the project whose children are paged
MaxShown == 101

\* addOrUpdateServiceProvider calls that wait for config.update at one time
MaxInFlight == 2

\* detectClaudePath calls of a behaviour
MaxCalls == 4

(* Program constants *)

\* content.substring(0, 50)
NameLimit == 50
\* content.length > 3
MinNameLength == 3

\* .slice(0, 20)
SessionFileCap == 20

\* DEFAULT_SESSIONS_LIMIT: the Sessions a project shows before "Load more"
DEFAULT_SESSIONS_LIMIT == 50

----------------------------------------------------------------------------
(* Values *)

\* entry.cwd / entry.sessionId / entry.timestamp that are undefined
NoPath == << >>
NoSid == 0
NoTs == 0
\* a Session without filePath
NoFile == << >>

\* the instants new Date() can return during a pass
Clock == {5}

PathW == <<"/", "w">>
PathUpperW == <<"/", "W">>
PathWs == <<"/", "w", "s">>
PathX == <<"/", "x">>
\* a directory inside PathW
PathWSub == <<"/", "w", "/", "s">>
Paths == {PathW, PathUpperW, PathWs, PathX, PathWSub}

FolderOrder == <<"F1", "F2">>
Folders == {"F1", "F2"}

----------------------------------------------------------------------------
(* Strings *)

\* String.prototype.toLowerCase on one character
LowerChar(c) == IF c = "W" THEN "w" ELSE IF c = "X" THEN "x" ELSE IF c = "S" THEN "s" ELSE c

toLowerCase(s) == [i \in 1..Len(s) |-> LowerChar(s[i])]

\* String.prototype.startsWith
startsWith(s, prefix) ==
    /\ Len(prefix) <= Len(s)
    /\ \A i \in 1..Len(prefix) : s[i] = prefix[i]

RECURSIVE CollapseSlashes(_)
CollapseSlashes(s) ==
    IF Len(s) <= 1 THEN s
    ELSE IF s[1] = "/" /\ s[2] = "/" THEN CollapseSlashes(Tail(s))
    ELSE <<s[1]>> \o CollapseSlashes(Tail(s))

\* path.normalize (POSIX) on paths without "." and ".." segments: runs of
\* separators collapse to one, the empty path becomes "."
normalize(p) == IF p = << >> THEN <<".">> ELSE CollapseSlashes(p)

RECURSIVE StripTrailingSlashes(_)
StripTrailingSlashes(s) ==
    IF Len(s) > 1 /\ s[Len(s)] = "/" THEN StripTrailingSlashes(SubSeq(s, 1, Len(s) - 1))
    ELSE s

\* path.basename (POSIX): the part after the last separator, trailing
\* separators ignored; "" for "" and for "/"
basename(p) ==
    LET s == StripTrailingSlashes(p)
        cuts == {i \in 1..Len(s) : s[i] = "/"}
        last == IF cuts = {} THEN 0 ELSE CHOOSE i \in cuts : \A j \in cuts : j <= i
    IN  SubSeq(s, last + 1, Len(s))

\* collation weight of a character: letters in alphabetical order
CharWeight(c) ==
    LET l == LowerChar(c)
    IN  IF l = "/" THEN 0 ELSE IF l = "." THEN 1 ELSE IF l = "s" THEN 2
        ELSE IF l = "w" THEN 3 ELSE IF l = "x" THEN 4 ELSE 5

RECURSIVE ComparePrimary(_, _)
ComparePrimary(a, b) ==
    IF a = << >> /\ b = << >> THEN 0
    ELSE IF a = << >> THEN -1
    ELSE IF b = << >> THEN 1
    ELSE IF CharWeight(a[1]) < CharWeight(b[1]) THEN -1
    ELSE IF CharWeight(a[1]) > CharWeight(b[1]) THEN 1
    ELSE ComparePrimary(Tail(a), Tail(b))

RECURSIVE CompareCase(_, _)
CompareCase(a, b) ==
    IF a = << >> \/ b = << >> THEN 0
    ELSE IF a[1] = b[1] THEN CompareCase(Tail(a), Tail(b))
    ELSE IF LowerChar(a[1]) = a[1] THEN -1 ELSE 1

\* String.prototype.localeCompare: letters first, then lower case before
\* upper case at the first difference
localeCompare(a, b) ==
    IF ComparePrimary(a, b) # 0 THEN ComparePrimary(a, b) ELSE CompareCase(a, b)

----------------------------------------------------------------------------
(* Log records, session files, the Store *)

\* one line of a .jsonl file after JSON.parse: parses = FALSE is a line on
\* which JSON.parse throws
\* entry.message.content: "undefined" when the record has no message or the
\* message no content, a string, "textArray" for an array with the text of its
\* first item of type 'text', "object" for any other value
NoContent == [kind |-> "undefined", text |-> << >>]
StringContent(text) == [kind |-> "string", text |-> text]
TextArrayContent(text) == [kind |-> "textArray", text |-> text]
ObjectContent == [kind |-> "object", text |-> << >>]

LogRecord(cwd, sid, ts, type) ==
    [parses |-> TRUE, cwd |-> cwd, sessionId |-> sid, timestamp |-> ts, type |-> type,
     content |-> NoContent]

\* a record of type user with a message
UserRecord(cwd, sid, ts, content) ==
    [parses |-> TRUE, cwd |-> cwd, sessionId |-> sid, timestamp |-> ts, type |-> "user",
     content |-> content]

GarbageLine ==
    [parses |-> FALSE, cwd |-> NoPath, sessionId |-> NoSid, timestamp |-> NoTs, type |-> "none",
     content |-> NoContent]

\* a .jsonl file of a project folder; readable = FALSE makes readFileSync throw
SessionFile(name, mtime, readable, lines) ==
    [name |-> name, mtime |-> mtime, readable |-> readable, lines |-> lines]

Project(id, name, path, createdAt) ==
    [id |-> id, name |-> name, path |-> path, createdAt |-> createdAt]

Session(id, name, projectId, createdAt, lastActiveAt, claudeSessionId, isTemporary, filePath) ==
    [id |-> id, name |-> name, projectId |-> projectId, createdAt |-> createdAt,
     lastActiveAt |-> lastActiveAt, claudeSessionId |-> claudeSessionId,
     isTemporary |-> isTemporary, filePath |-> filePath]

StoreData(ps, ss) == [projects |-> ps, sessions |-> ss]

\* { projects: [], sessions: [] }
EmptyStore == StoreData(<< >>, << >>)

Range(s) == {s[i] : i \in DOMAIN s}

IdsOf(d) == {p.id : p \in Range(d.projects)} \cup {x.id : x \in Range(d.sessions)}

\* uuidv4(): an id that occurs nowhere in the ids given
uuidv4(used) == CHOOSE n \in 1..(Cardinality(used) + 1) :
                    /\ n \notin used
                    /\ \A m \in 1..(n - 1) : m \in used

\* new Date(ts).toISOString() throws RangeError on a timestamp that is not a date
ValidDate(ts) == ts > 0

----------------------------------------------------------------------------
(* State *)

VARIABLES
    impl,       \* "mono": src/session-manager.ts, "mod": src/session-manager/*
    projects,   \* data.projects
    sessions,   \* data.sessions
    dirState,   \* "noClaude": no ~/.claude; "noProjects": ~/.claude without projects;
                \* "projects": ~/.claude/projects is a directory;
                \* "blocked": ~/.claude/projects exists and readdirSync on it throws
    dir,        \* the .jsonl files of each project folder, in readdirSync order
    lastOp,     \* the pass or getProjects call that ran last: "sync" with 2 when the
                \* step before was a full resync too and 1 otherwise, "refresh",
                \* "getProjects" with the workspace folders; "other" after any other step
    raised,     \* the operation that ran last threw to its caller
    tombstone,  \* id given to the last deleteProject since the last pass, 0 if none
    document,   \* session-store.json: absent, unparsable, or the JSON text of a Store
    faults,     \* the file system calls that throw at present: "write" for
                \* writeFileSync, "rename" for renameSync, "unlink" for unlinkSync
    lastSave,   \* what the save of the step that ran last did: "written", "failed",
                \* "none" when the step did not call save
    returned,   \* the array the last getWorkspaceProjects call returned
    projectSessionLimits,
                \* ClaudeSessionProvider.projectSessionLimits: the Map from project
                \* ids to the number of Sessions the tree shows
    item,       \* the tree item the deleteSession command was invoked on and
                \* whose modal confirmation is open, NoItem when none is
    deleted,    \* the externalSessionIds of the file-backed Sessions that
                \* deleteSession removed
    held,       \* what this.data is since the constructor: "store" for an object
                \* with the projects and sessions lists, else "null", "object" ({})
                \* or "array" ([]) and projects and sessions stand for nothing
    serviceProviders,
                \* the serviceProviders setting as getConfiguration().get reads it
    pendingUpdates,
                \* the addOrUpdateServiceProvider calls that wait for their
                \* config.update, in the order they sent it
    effects,    \* for every provider id, the provider of the call that started last
    pathManager,
                \* the fields of the ClaudePathManager: cachedResult, detecting,
                \* detectionPromise
    detections  \* the performDetection runs that have not settled, the
                \* detectClaudePath calls that wait, and the calls that returned

\* the UnifiedConfigManager and the ClaudePathManager
configVars == <<serviceProviders, pendingUpdates, effects>>
detectVars == <<pathManager, detections>>

\* the state of the tree view, of the constructor and of the other managers,
\* which no operation of the SessionManager touches
aside == <<projectSessionLimits, item, deleted, held, configVars, detectVars>>

vars == <<impl, projects, sessions, dirState, dir, lastOp, raised, tombstone,
          document, faults, lastSave, returned, projectSessionLimits, item, deleted,
          held, serviceProviders, pendingUpdates, effects, pathManager, detections>>

data == StoreData(projects, sessions)

----------------------------------------------------------------------------
(* The persisted document *)

\* JSON.stringify leaves out the properties whose value is undefined: a
\* Session without filePath or without claudeSessionId
stringifySession(x) ==
    LET required == [id |-> x.id, name |-> x.name, projectId |-> x.projectId, createdAt |-> x.createdAt,
                     lastActiveAt |-> x.lastActiveAt, isTemporary |-> x.isTemporary]
    IN  IF x.filePath = NoFile /\ x.claudeSessionId = NoSid THEN required
        ELSE IF x.filePath = NoFile
             THEN [id |-> x.id, name |-> x.name, projectId |-> x.projectId, createdAt |-> x.createdAt,
                   lastActiveAt |-> x.lastActiveAt, isTemporary |-> x.isTemporary,
                   claudeSessionId |-> x.claudeSessionId]
        ELSE IF x.claudeSessionId = NoSid
             THEN [id |-> x.id, name |-> x.name, projectId |-> x.projectId, createdAt |-> x.createdAt,
                   lastActiveAt |-> x.lastActiveAt, isTemporary |-> x.isTemporary,
                   filePath |-> x.filePath]
        ELSE x

\* JSON.stringify(data, null, 2)
stringify(d) ==
    [projects |-> d.projects,
     sessions |-> [i \in DOMAIN d.sessions |-> stringifySession(d.sessions[i])]]

\* a property that is read from a parsed object and is not there is undefined
parseSession(j) ==
    [id |-> j.id, name |-> j.name, projectId |-> j.projectId, createdAt |-> j.createdAt,
     lastActiveAt |-> j.lastActiveAt, isTemporary |-> j.isTemporary,
     claudeSessionId |-> IF "claudeSessionId" \in DOMAIN j THEN j.claudeSessionId ELSE NoSid,
     filePath |-> IF "filePath" \in DOMAIN j THEN j.filePath ELSE NoFile]

\* JSON.parse(content) of a document that save wrote
parse(text) ==
    [projects |-> text.projects,
     sessions |-> [i \in DOMAIN text.sessions |-> parseSession(text.sessions[i])]]

AbsentDocument == [kind |-> "absent", text |-> stringify(EmptyStore)]
UnparsableDocument == [kind |-> "unparsable", text |-> stringify(EmptyStore)]
StoredDocument(d) == [kind |-> "stored", text |-> stringify(d)]

\* documents that JSON.parse accepts and that are no Store: the texts null, {}
\* and []
ForeignKinds == {"null", "object", "array"}
ForeignDocument(kind) == [kind |-> kind, text |-> stringify(EmptyStore)]

\* save without its try/catch: the error of writeFileSync reaches the caller
save_Throwing(d, doc, failing) ==
    IF "write" \in failing THEN [document |-> doc, outcome |-> "failed", raised |-> TRUE]
    ELSE [document |-> StoredDocument(d), outcome |-> "written", raised |-> FALSE]

\* save(data): writeFileSync inside try/catch, the error is logged
save(d, doc, failing) ==
    IF "write" \in failing THEN [document |-> doc, outcome |-> "failed", raised |-> FALSE]
    ELSE [document |-> StoredDocument(d), outcome |-> "written", raised |-> FALSE]

\* SessionManager.load (src/session-manager.ts): the data it returns, the
\* document it leaves, whether it threw; the catch block moves the document
\* to a backup with renameSync before it saves the empty Store. The value of
\* JSON.parse is returned as it is: holds says what it is, "store" for an
\* object with the two lists, and data stands for the lists when there are any
SessionManager_load(doc, failing) ==
    LET created == save(EmptyStore, doc, failing)
        reset == save(EmptyStore, AbsentDocument, failing)
    IN  IF doc.kind = "stored"
        THEN [data |-> parse(doc.text), document |-> doc, outcome |-> "none", raised |-> FALSE,
              holds |-> "store"]
        ELSE IF doc.kind \in ForeignKinds
        THEN [data |-> EmptyStore, document |-> doc, outcome |-> "none", raised |-> FALSE,
              holds |-> doc.kind]
        ELSE IF doc.kind = "absent"
        THEN [data |-> EmptyStore, document |-> created.document,
              outcome |-> created.outcome, raised |-> created.raised, holds |-> "store"]
        ELSE IF "rename" \in failing
        THEN [data |-> EmptyStore, document |-> doc, outcome |-> "none", raised |-> TRUE,
              holds |-> "store"]
        ELSE [data |-> EmptyStore, document |-> reset.document,
              outcome |-> reset.outcome, raised |-> reset.raised, holds |-> "store"]

\* StorageManager.load: the catch block saves the empty Store over the document
StorageManager_load(doc, failing) ==
    LET created == save(EmptyStore, doc, failing)
    IN  IF doc.kind = "stored"
        THEN [data |-> parse(doc.text), document |-> doc, outcome |-> "none", raised |-> FALSE,
              holds |-> "store"]
        ELSE IF doc.kind \in ForeignKinds
        THEN [data |-> EmptyStore, document |-> doc, outcome |-> "none", raised |-> FALSE,
              holds |-> doc.kind]
        ELSE [data |-> EmptyStore, document |-> created.document,
              outcome |-> created.outcome, raised |-> created.raised, holds |-> "store"]

----------------------------------------------------------------------------
(* Reading a project folder *)

\* fs.readFileSync(..).split('\n').filter(..).map(line => JSON.parse(line))
readSessionData(file) ==
    [threw |-> ~file.readable \/ \E i \in DOMAIN file.lines : ~file.lines[i].parses,
     entries |-> file.lines]

\* Loops are recursive operators; CHOOSE over a singleton binds the value an
\* iteration produced before the next iteration starts.
RECURSIVE InsertByMtime(_, _)
InsertByMtime(sorted, f) ==
    IF sorted = << >> THEN <<f>>
    ELSE IF sorted[1].mtime >= f.mtime
         THEN CHOOSE result \in {<<sorted[1]>> \o InsertByMtime(rest, f) : rest \in {Tail(sorted)}} : TRUE
    ELSE <<f>> \o sorted

RECURSIVE NewestFirstUpTo(_, _)
NewestFirstUpTo(files, n) ==
    IF n = 0 THEN << >>
    ELSE CHOOSE result \in {InsertByMtime(sorted, files[n]) : sorted \in {NewestFirstUpTo(files, n - 1)}} : TRUE

\* the files left in directory order: the sort forgotten
sortByMtimeDesc_DirectoryOrder(files) == files

\* .sort((a, b) => b.stats.mtime.getTime() - a.stats.mtime.getTime()): stable
sortByMtimeDesc(files) == NewestFirstUpTo(files, Len(files))

\* Array.prototype.slice(0, n)
slice0(s, n) == SubSeq(s, 1, IF Len(s) < n THEN Len(s) ELSE n)

\* the session files a pass looks at in one folder
cappedSessionFiles(allSessionFiles) == slice0(sortByMtimeDesc(allSessionFiles), SessionFileCap)

MinOf(S) == CHOOSE x \in S : \A y \in S : x <= y

MaxOf(S) == CHOOSE x \in S : \A y \in S : y <= x

\* sessionData.find(entry => entry.cwd)
entryWithCwd(entries) ==
    LET hits == {i \in DOMAIN entries : entries[i].cwd # NoPath}
    IN  IF hits = {} THEN [found |-> FALSE, entry |-> GarbageLine]
        ELSE [found |-> TRUE, entry |-> entries[MinOf(hits)]]

NoProjectInfo == [found |-> FALSE, path |-> NoPath, name |-> << >>, timestamp |-> NoTs]

RECURSIVE findProjectInfo(_)
findProjectInfo(sessionFiles) ==
    IF sessionFiles = << >> THEN NoProjectInfo
    ELSE LET r == readSessionData(sessionFiles[1])
             e == entryWithCwd(r.entries)
         IN  IF ~r.threw /\ e.found
             THEN [found |-> TRUE, path |-> e.entry.cwd, name |-> basename(e.entry.cwd),
                   timestamp |-> e.entry.timestamp]
             ELSE findProjectInfo(Tail(sessionFiles))

\* data.projects.find(p => p.path === projectInfo.path)
projectByPath(d, path) ==
    LET hits == {i \in DOMAIN d.projects : d.projects[i].path = path}
    IN  IF hits = {} THEN 0 ELSE MinOf(hits)

\* data.sessions.find(s => s.claudeSessionId === claudeSessionId)
sessionByClaudeId(d, sid) ==
    LET hits == {i \in DOMAIN d.sessions : d.sessions[i].claudeSessionId = sid}
    IN  IF hits = {} THEN 0 ELSE MinOf(hits)

----------------------------------------------------------------------------
(* ClaudeSyncManager: the modular full resync *)

\* createdAt / lastActiveAt of a Session made from sessionData
extractSessionTimes(sessionData, firstEntry, now) ==
    LET lastMessage == sessionData[Len(sessionData)]
        createdAt == IF firstEntry.timestamp # NoTs /\ ValidDate(firstEntry.timestamp)
                     THEN firstEntry.timestamp ELSE now
        lastActiveAt == IF lastMessage.timestamp # NoTs /\ ValidDate(lastMessage.timestamp)
                        THEN lastMessage.timestamp ELSE createdAt
    IN  [createdAt |-> createdAt, lastActiveAt |-> lastActiveAt]

\* the Store after createProject and the index of the Project it returns
createProject(projectInfo, d, now, avoid) ==
    LET existing == projectByPath(d, projectInfo.path)
        createdAt == IF projectInfo.timestamp # NoTs /\ ValidDate(projectInfo.timestamp)
                     THEN projectInfo.timestamp ELSE now
        made == Project(uuidv4(avoid \cup IdsOf(d)), projectInfo.name, projectInfo.path, createdAt)
    IN  IF existing # 0 THEN [data |-> d, project |-> d.projects[existing]]
        ELSE [data |-> StoreData(Append(d.projects, made), d.sessions), project |-> made]

\* sessionData.find(msg => msg.type === 'user')
firstUserMessage(sessionData) ==
    LET hits == {i \in DOMAIN sessionData : sessionData[i].type = "user"}
    IN  IF hits = {} THEN [found |-> FALSE, entry |-> GarbageLine]
        ELSE [found |-> TRUE, entry |-> sessionData[MinOf(hits)]]

\* \s of a regular expression, and what String.prototype.trim removes
IsSpace(c) == c \in {" ", "\n", "\r", "\t"}

\* String.prototype.trim: from the first to the last character that is not
\* white space
trim(s) ==
    LET nonSpace == {i \in 1..Len(s) : ~IsSpace(s[i])}
    IN  IF nonSpace = {} THEN << >> ELSE SubSeq(s, MinOf(nonSpace), MaxOf(nonSpace))

\* String.prototype.substring(0, n)
substring0(s, n) == SubSeq(s, 1, IF Len(s) < n THEN Len(s) ELSE n)

\* the length of the match of /cd\s+"[^"]*"|cd\s+\S+/ that starts at the first
\* character of s, 0 when there is none: "cd", white space up to position
\* k - 1, then a quoted string if s[k] opens one that is closed, else the
\* characters up to the next white space
MatchCdAt(s) ==
    LET n == Len(s)
        nonSpace == {i \in 3..n : ~IsSpace(s[i])}
        k == IF nonSpace = {} THEN n + 1 ELSE MinOf(nonSpace)
        closing == {j \in (k + 1)..n : s[j] = "\""}
        spaceAfter == {i \in (k + 1)..n : IsSpace(s[i])}
    IN  IF n < 4 \/ s[1] # "c" \/ s[2] # "d" \/ ~IsSpace(s[3]) \/ k > n THEN 0
        ELSE IF s[k] = "\"" /\ closing # {} THEN MinOf(closing)
        ELSE IF spaceAfter = {} THEN n ELSE MinOf(spaceAfter) - 1

\* content.replace(/cd\s+"[^"]*"|cd\s+\S+/g, ''): every match, left to right
\* the scan of the global replace from position i on: kept holds the
\* characters before i that are in no match
RECURSIVE RemoveCdFrom(_, _, _)
RemoveCdFrom(s, i, kept) ==
    IF i > Len(s) THEN kept
    ELSE LET step == CHOOSE result \in
                         {IF m > 0 THEN [i |-> i + m, kept |-> kept]
                          ELSE [i |-> i + 1, kept |-> Append(kept, s[i])] :
                              m \in {MatchCdAt(SubSeq(s, i, Len(s)))}} : TRUE
         IN  RemoveCdFrom(s, step.i, step.kept)

\* content.replace(/cd\s+"[^"]*"|cd\s+\S+/g, ''): every match, left to right
removeCdCommands(s) == RemoveCdFrom(s, 1, << >>)

\* content.replace(/\n|\r/g, ' ')
replaceNewlines(s) == [i \in 1..Len(s) |-> IF s[i] \in {"\n", "\r"} THEN " " ELSE s[i]]

DigitChar(n) == <<"0", "1", "2", "3", "4", "5", "6", "7", "8", "9">>[n + 1]

\* a number in a template literal
RECURSIVE Decimal(_)
Decimal(n) == IF n < 10 THEN <<DigitChar(n)>> ELSE Decimal(n \div 10) \o <<DigitChar(n % 10)>>

\* `Session ${claudeSessionId}`
DefaultSessionName(claudeSessionId) ==
    <<"S", "e", "s", "s", "i", "o", "n", " ">>
        \o (IF claudeSessionId = NoSid
            THEN <<"u", "n", "d", "e", "f", "i", "n", "e", "d">>
            ELSE Decimal(claudeSessionId))

\* String(content) of an object or of an array of one object
ObjectText == <<"[", "o", "b", "j", "e", "c", "t", " ", "O", "b", "j", "e", "c", "t", "]">>

\* the content as a string: the string itself, the text of the first item of
\* type 'text' of an array, String(content) otherwise
contentText(content) ==
    IF content.kind \in {"string", "textArray"} THEN content.text ELSE ObjectText

\* a name from any content that leaves 3 characters after the cleaning
generateSessionName_AtLeastThree(sessionData, claudeSessionId) ==
    LET fum == firstUserMessage(sessionData)
        content == fum.entry.content
        cleaned == trim(replaceNewlines(trim(removeCdCommands(contentText(content)))))
    IN  IF fum.found /\ content.kind # "undefined" /\ content # StringContent(<< >>)
           /\ Len(cleaned) >= MinNameLength
        THEN trim(substring0(cleaned, NameLimit))
        ELSE DefaultSessionName(claudeSessionId)

\* generateSessionName, and the same statements inside the loops of
\* SessionManager.syncWithClaudeDirectory and refreshProjectSessions
generateSessionName(sessionData, claudeSessionId) ==
    LET fum == firstUserMessage(sessionData)
        content == fum.entry.content
        cleaned == trim(replaceNewlines(trim(removeCdCommands(contentText(content)))))
    IN  IF fum.found /\ content.kind # "undefined" /\ content # StringContent(<< >>)
           /\ Len(cleaned) > MinNameLength
        THEN trim(substring0(cleaned, NameLimit))
        ELSE DefaultSessionName(claudeSessionId)

\* the Store after createSessionFromData
createSessionFromData(sessionData, project, sessionFilePath, d, now, avoid) ==
    LET firstEntry == sessionData[1]
        claudeSessionId == firstEntry.sessionId
        times == extractSessionTimes(sessionData, firstEntry, now)
        made == Session(uuidv4(avoid \cup IdsOf(d)),
                        generateSessionName(sessionData, claudeSessionId), project.id, times.createdAt,
                        times.lastActiveAt, claudeSessionId, FALSE, sessionFilePath)
    IN  IF sessionByClaudeId(d, claudeSessionId) # 0 THEN d
        ELSE StoreData(d.projects, Append(d.sessions, made))

RECURSIVE syncProjectSessions(_, _, _, _, _, _)
syncProjectSessions(sessionFiles, projectFolder, project, d, now, avoid) ==
    IF sessionFiles = << >> THEN d
    ELSE LET file == sessionFiles[1]
             r == readSessionData(file)
             next == IF r.threw \/ r.entries = << >> THEN d
                     ELSE createSessionFromData(r.entries, project,
                                                <<projectFolder, file.name>>, d, now, avoid)
         IN  CHOOSE result \in {syncProjectSessions(rest, projectFolder, project, after, now, avoid) :
                              rest \in {Tail(sessionFiles)}, after \in {next}} : TRUE

\* the Store after syncProjectFolder
syncProjectFolder(projectFolder, d, now, avoid) ==
    LET sessionFiles == cappedSessionFiles(dir[projectFolder])
        projectInfo == findProjectInfo(sessionFiles)
        created == createProject(projectInfo, d, now, avoid)
    IN  IF ~projectInfo.found THEN d
        ELSE syncProjectSessions(sessionFiles, projectFolder, created.project,
                                 created.data, now, avoid)

RECURSIVE ModSyncFolders(_, _, _, _)
ModSyncFolders(projectFolders, d, now, avoid) ==
    IF projectFolders = << >> THEN d
    ELSE ModSyncFolders(Tail(projectFolders),
                        syncProjectFolder(projectFolders[1], d, now, avoid), now, avoid)

\* the rebuilt collections pushed after the old ones: data.projects and
\* data.sessions not emptied, duplicates looked up among the new items only
ClaudeSyncManager_syncWithClaudeDirectory_Appending(d, now) ==
    IF dirState = "noClaude" THEN [data |-> d, raised |-> FALSE]
    ELSE IF dirState = "noProjects" THEN [data |-> d, raised |-> FALSE]
    ELSE IF dirState = "blocked" THEN [data |-> d, raised |-> TRUE]
    ELSE LET rebuilt == ModSyncFolders(FolderOrder, EmptyStore, now, IdsOf(d) \cup {tombstone})
         IN  [data |-> StoreData(d.projects \o rebuilt.projects, d.sessions \o rebuilt.sessions),
              raised |-> FALSE]

\* ClaudeSyncManager.syncWithClaudeDirectory: the Store it leaves and whether
\* it threw
ClaudeSyncManager_syncWithClaudeDirectory(d, now) ==
    IF dirState = "noClaude" THEN [data |-> d, raised |-> FALSE]
    ELSE IF dirState = "noProjects" THEN [data |-> EmptyStore, raised |-> FALSE]
    ELSE IF dirState = "blocked" THEN [data |-> EmptyStore, raised |-> TRUE]
    ELSE [data |-> ModSyncFolders(FolderOrder, EmptyStore, now, IdsOf(d) \cup {tombstone}),
          raised |-> FALSE]

----------------------------------------------------------------------------
(* SessionManager (src/session-manager.ts): the monolithic full resync *)

\* lastActiveAt as the second pass computes it
MonoLastActiveAt(sessionData, now) ==
    LET firstEntry == sessionData[1]
        lastMessage == sessionData[Len(sessionData)]
    IN  IF lastMessage.timestamp # NoTs
        THEN IF ValidDate(lastMessage.timestamp) THEN lastMessage.timestamp ELSE now
        ELSE IF ValidDate(firstEntry.timestamp) THEN firstEntry.timestamp ELSE now

\* one iteration of the second pass: the Store after one session file
MonoSessionFromFile(file, projectFolder, project, d, now, avoid) ==
    LET r == readSessionData(file)
        sessionData == r.entries
        firstEntry == sessionData[1]
        claudeSessionId == firstEntry.sessionId
        createdAt == IF firstEntry.timestamp # NoTs /\ ValidDate(firstEntry.timestamp)
                     THEN firstEntry.timestamp ELSE now
        made == Session(uuidv4(avoid \cup IdsOf(d)),
                        generateSessionName(sessionData, claudeSessionId), project.id, createdAt,
                        MonoLastActiveAt(sessionData, now), claudeSessionId, FALSE,
                        <<projectFolder, file.name>>)
    IN  IF r.threw \/ sessionData = << >> THEN d
        ELSE IF sessionByClaudeId(d, claudeSessionId) # 0 THEN d
        ELSE StoreData(d.projects, Append(d.sessions, made))

RECURSIVE MonoSecondPass(_, _, _, _, _, _)
MonoSecondPass(sessionFiles, projectFolder, project, d, now, avoid) ==
    IF sessionFiles = << >> THEN d
    ELSE CHOOSE result \in {MonoSecondPass(rest, projectFolder, project, after, now, avoid) :
                          rest \in {Tail(sessionFiles)},
                          after \in {MonoSessionFromFile(sessionFiles[1], projectFolder, project,
                                                         d, now, avoid)}} : TRUE

\* the body of the loop over the project folders
MonoSyncFolder(projectFolder, d, now, avoid) ==
    LET sessionFiles == cappedSessionFiles(dir[projectFolder])
        info == findProjectInfo(sessionFiles)
        existing == projectByPath(d, info.path)
        createdAt == IF info.timestamp # NoTs /\ ValidDate(info.timestamp)
                     THEN info.timestamp ELSE now
        made == Project(uuidv4(avoid \cup IdsOf(d)), info.name, info.path, createdAt)
        project == IF existing # 0 THEN d.projects[existing] ELSE made
        withProject == IF existing # 0 THEN d
                       ELSE StoreData(Append(d.projects, made), d.sessions)
    IN  IF info.found /\ info.path # NoPath /\ info.name # << >>
        THEN MonoSecondPass(sessionFiles, projectFolder, project, withProject, now, avoid)
        ELSE d

RECURSIVE MonoSyncFolders(_, _, _, _)
MonoSyncFolders(projectFolders, d, now, avoid) ==
    IF projectFolders = << >> THEN d
    ELSE MonoSyncFolders(Tail(projectFolders),
                         MonoSyncFolder(projectFolders[1], d, now, avoid), now, avoid)

\* this.data.sessions = [] forgotten: the old Sessions stay under rebuilt Projects
SessionManager_syncWithClaudeDirectory_KeepsSessions(d, now) ==
    LET kept == StoreData(<< >>, d.sessions)
    IN  IF dirState = "noClaude" THEN [data |-> d, raised |-> FALSE]
        ELSE IF dirState = "noProjects" THEN [data |-> kept, raised |-> FALSE]
        ELSE IF dirState = "blocked" THEN [data |-> kept, raised |-> TRUE]
        ELSE [data |-> MonoSyncFolders(FolderOrder, kept, now, IdsOf(d) \cup {tombstone}),
              raised |-> FALSE]

\* SessionManager.syncWithClaudeDirectory: the Store it leaves and whether it
\* threw
SessionManager_syncWithClaudeDirectory(d, now) ==
    IF dirState = "noClaude" THEN [data |-> d, raised |-> FALSE]
    ELSE IF dirState = "noProjects" THEN [data |-> EmptyStore, raised |-> FALSE]
    ELSE IF dirState = "blocked" THEN [data |-> EmptyStore, raised |-> TRUE]
    ELSE [data |-> MonoSyncFolders(FolderOrder, EmptyStore, now, IdsOf(d) \cup {tombstone}),
          raised |-> FALSE]

----------------------------------------------------------------------------
(* SessionManager.refreshProjectSessions (src/session-manager.ts) *)

\* this.data.projects.find(p => p.id === projectId)
getProjectById(d, projectId) ==
    LET hits == {i \in DOMAIN d.projects : d.projects[i].id = projectId}
    IN  IF hits = {} THEN 0 ELSE MinOf(hits)

\* one iteration of the loop over the session files of the matching folder
RefreshSessionFromFile(file, projectFolder, project, d, now, avoid) ==
    LET r == readSessionData(file)
        sessionData == r.entries
        firstEntry == sessionData[1]
        claudeSessionId == firstEntry.sessionId
        fum == firstUserMessage(sessionData)
        createdAt == IF fum.found /\ fum.entry.timestamp # NoTs
                     THEN IF ValidDate(fum.entry.timestamp) THEN fum.entry.timestamp ELSE now
                     ELSE IF ValidDate(firstEntry.timestamp) THEN firstEntry.timestamp ELSE now
        made == Session(uuidv4(avoid \cup IdsOf(d)),
                        generateSessionName(sessionData, claudeSessionId), project.id, createdAt,
                        MonoLastActiveAt(sessionData, now), claudeSessionId, FALSE,
                        <<projectFolder, file.name>>)
    IN  IF r.threw \/ sessionData = << >> THEN d
        ELSE IF sessionByClaudeId(d, claudeSessionId) # 0 THEN d
        ELSE StoreData(d.projects, Append(d.sessions, made))

RECURSIVE RefreshSessionFiles(_, _, _, _, _, _)
RefreshSessionFiles(sessionFiles, projectFolder, project, d, now, avoid) ==
    IF sessionFiles = << >> THEN d
    ELSE RefreshSessionFiles(Tail(sessionFiles), projectFolder, project,
                             RefreshSessionFromFile(sessionFiles[1], projectFolder, project,
                                                    d, now, avoid),
                             now, avoid)

\* the first session file of the folder, in readdirSync order, names the
\* project's path
matchesProject(projectFolder, project) ==
    LET allSessionFiles == dir[projectFolder]
        r == readSessionData(allSessionFiles[1])
        e == entryWithCwd(r.entries)
    IN  /\ allSessionFiles # << >>
        /\ ~r.threw
        /\ e.found
        /\ e.entry.cwd = project.path

\* the loop over the project folders: it ends at the first folder that matches
RECURSIVE RefreshFolders(_, _, _, _, _)
RefreshFolders(projectFolders, project, d, now, avoid) ==
    IF projectFolders = << >> THEN d
    ELSE IF matchesProject(projectFolders[1], project)
    THEN RefreshSessionFiles(cappedSessionFiles(dir[projectFolders[1]]), projectFolders[1],
                             project, d, now, avoid)
    ELSE RefreshFolders(Tail(projectFolders), project, d, now, avoid)

\* a refresh that starts from no Sessions at all instead of from the Sessions
\* of the other projects
SessionManager_refreshProjectSessions_ClearsAll(d, projectId, now) ==
    LET found == getProjectById(d, projectId)
        project == d.projects[found]
        removed == StoreData(d.projects, << >>)
    IN  IF found = 0 THEN [data |-> d, raised |-> FALSE]
        ELSE IF dirState \in {"noClaude", "noProjects"} THEN [data |-> removed, raised |-> FALSE]
        ELSE IF dirState = "blocked" THEN [data |-> removed, raised |-> TRUE]
        ELSE [data |-> RefreshFolders(FolderOrder, project, removed, now,
                                      IdsOf(d) \cup {tombstone}),
              raised |-> FALSE]

\* SessionManager.refreshProjectSessions: the Store it leaves and whether it
\* threw
SessionManager_refreshProjectSessions(d, projectId, now) ==
    LET found == getProjectById(d, projectId)
        project == d.projects[found]
        removed == StoreData(d.projects, SelectSeq(d.sessions, LAMBDA x : x.projectId # projectId))
    IN  IF found = 0 THEN [data |-> d, raised |-> FALSE]
        ELSE IF dirState \in {"noClaude", "noProjects"} THEN [data |-> removed, raised |-> FALSE]
        ELSE IF dirState = "blocked" THEN [data |-> removed, raised |-> TRUE]
        ELSE [data |-> RefreshFolders(FolderOrder, project, removed, now,
                                      IdsOf(d) \cup {tombstone}),
              raised |-> FALSE]

\* SessionDataManager.refreshProjectSessions: a placeholder that does nothing
SessionDataManager_refreshProjectSessions(d, projectId, now) ==
    [data |-> d, raised |-> FALSE]

----------------------------------------------------------------------------
(* Queries and mutations of the Store *)

\* getSessions(projectId): data.sessions.filter(s => s.projectId === projectId)
getSessions(d, projectId) == SelectSeq(d.sessions, LAMBDA x : x.projectId = projectId)

\* Math.max(...sessions.map(s => new Date(s.lastActiveAt).getTime())), or
\* new Date(createdAt).getTime() for a project without sessions
lastActive(d, project) ==
    LET mine == getSessions(d, project.id)
    IN  IF mine # << >> THEN MaxOf({mine[i].lastActiveAt : i \in DOMAIN mine})
        ELSE project.createdAt

\* arePathsEqual (ProjectManager)
arePathsEqual(path1, path2) == toLowerCase(normalize(path1)) = toLowerCase(normalize(path2))

\* the comparator of SessionManager.sortProjectsByWorkspaceRelevance
MonoCompare(d, workspacePaths, a, b) ==
    LET aInWorkspace == \E wsPath \in workspacePaths : startsWith(a.path, wsPath)
        bInWorkspace == \E wsPath \in workspacePaths : startsWith(b.path, wsPath)
    IN  IF aInWorkspace /\ ~bInWorkspace THEN -1
        ELSE IF ~aInWorkspace /\ bInWorkspace THEN 1
        ELSE lastActive(d, b) - lastActive(d, a)

\* the comparators of ProjectManager.sortProjectsByWorkspaceRelevance
ModCompare(d, workspacePaths, a, b) ==
    LET aIsWorkspace == \E wsPath \in workspacePaths : arePathsEqual(a.path, wsPath)
        bIsWorkspace == \E wsPath \in workspacePaths : arePathsEqual(b.path, wsPath)
    IN  IF workspacePaths = {} THEN localeCompare(a.name, b.name)
        ELSE IF aIsWorkspace /\ ~bIsWorkspace THEN -1
        ELSE IF ~aIsWorkspace /\ bIsWorkspace THEN 1
        ELSE localeCompare(a.name, b.name)

\* Array.prototype.sort(compare): stable, x goes behind everything that does
\* not sort after it; compare is the comparator as a table over the elements
RECURSIVE InsertSorted(_, _, _)
InsertSorted(sorted, x, compare) ==
    IF sorted = << >> THEN <<x>>
    ELSE IF compare[<<sorted[1], x>>] <= 0
    THEN <<sorted[1]>> \o InsertSorted(Tail(sorted), x, compare)
    ELSE <<x>> \o sorted

RECURSIVE SortUpTo(_, _, _)
SortUpTo(s, n, compare) ==
    IF n = 0 THEN << >> ELSE InsertSorted(SortUpTo(s, n - 1, compare), s[n], compare)

\* SessionManager.sortProjectsByWorkspaceRelevance: without workspace folders
\* the array comes back as it is
SessionManager_sortProjectsByWorkspaceRelevance(d, workspacePaths) ==
    IF workspacePaths = {} THEN d.projects
    ELSE SortUpTo(d.projects, Len(d.projects),
                  [ab \in Range(d.projects) \X Range(d.projects) |->
                      MonoCompare(d, workspacePaths, ab[1], ab[2])])

\* ProjectManager.sortProjectsByWorkspaceRelevance
ProjectManager_sortProjectsByWorkspaceRelevance(d, workspacePaths) ==
    SortUpTo(d.projects, Len(d.projects),
             [ab \in Range(d.projects) \X Range(d.projects) |->
                 ModCompare(d, workspacePaths, ab[1], ab[2])])

\* SessionManager.addProject: nothing happens when the id is known
\* String.prototype.replace(/\\/g, '/')
replaceBackslashes(s) == [i \in 1..Len(s) |-> IF s[i] = "\\" THEN "/" ELSE s[i]]

\* SessionManager.getWorkspaceProjects: this.getProjects(), which sorts
\* data.projects in place, then the filter; sorted is the array after the sort
SessionManager_getWorkspaceProjects(d, workspacePaths) ==
    LET sorted == SessionManager_sortProjectsByWorkspaceRelevance(d, workspacePaths)
        matches(project) ==
            \E wsPath \in workspacePaths :
                LET normalizedProjectPath == replaceBackslashes(project.path)
                    normalizedWsPath == replaceBackslashes(wsPath)
                IN  \/ normalizedProjectPath = normalizedWsPath
                    \/ startsWith(normalizedProjectPath, normalizedWsPath \o <<"/">>)
    IN  IF workspacePaths = {} THEN [returned |-> << >>, sorted |-> d.projects]
        ELSE [returned |-> SelectSeq(sorted, matches), sorted |-> sorted]

\* ProjectManager.getWorkspaceProjects: a filter of data.projects as they are
ProjectManager_getWorkspaceProjects(d, workspacePaths) ==
    LET matches(project) == \E wsPath \in workspacePaths : arePathsEqual(project.path, wsPath)
    IN  IF workspacePaths = {} THEN [returned |-> << >>, sorted |-> d.projects]
        ELSE [returned |-> SelectSeq(d.projects, matches), sorted |-> d.projects]

SessionManager_addProject(d, project) ==
    IF getProjectById(d, project.id) # 0 THEN d
    ELSE StoreData(Append(d.projects, project), d.sessions)

\* ProjectManager.addProject: replace the Project of that id or append
ProjectManager_addProject(d, project) ==
    LET existingIndex == getProjectById(d, project.id)
    IN  IF existingIndex # 0
        THEN StoreData([d.projects EXCEPT ![existingIndex] = project], d.sessions)
        ELSE StoreData(Append(d.projects, project), d.sessions)

\* data.sessions.findIndex(s => s.id === sessionId), 0 for -1
sessionIndexById(d, sessionId) ==
    LET hits == {i \in DOMAIN d.sessions : d.sessions[i].id = sessionId}
    IN  IF hits = {} THEN 0 ELSE MinOf(hits)

\* SessionManager.addSession
SessionManager_addSession(d, session) ==
    IF sessionIndexById(d, session.id) # 0 THEN d
    ELSE StoreData(d.projects, Append(d.sessions, session))

\* SessionDataManager.addSession
SessionDataManager_addSession(d, session) ==
    LET existingIndex == sessionIndexById(d, session.id)
    IN  IF existingIndex # 0
        THEN StoreData(d.projects, [d.sessions EXCEPT ![existingIndex] = session])
        ELSE StoreData(d.projects, Append(d.sessions, session))

\* { ...session, ...updates }
spread(session, updates) ==
    [f \in DOMAIN session |-> IF f \in DOMAIN updates THEN updates[f] ELSE session[f]]

\* updateSession, the same in both implementations
updateSession(d, sessionId, updates) ==
    LET sessionIndex == sessionIndexById(d, sessionId)
    IN  IF sessionIndex = 0 THEN d
        ELSE StoreData(d.projects,
                       [d.sessions EXCEPT ![sessionIndex] = spread(d.sessions[sessionIndex], updates)])

\* data.sessions.filter(s => s.id !== sessionId)
deleteSession(d, sessionId) ==
    StoreData(d.projects, SelectSeq(d.sessions, LAMBDA x : x.id # sessionId))

\* the Project removed and its Sessions left behind
deleteProject_KeepsSessions(d, projectId) ==
    StoreData(SelectSeq(d.projects, LAMBDA p : p.id # projectId), d.sessions)

\* deleteProject, the same collections in both implementations
deleteProject(d, projectId) ==
    StoreData(SelectSeq(d.projects, LAMBDA p : p.id # projectId),
              SelectSeq(d.sessions, LAMBDA x : x.projectId # projectId))

\* the folders after fs.unlinkSync(filePath) of SessionDataManager.deleteSession
unlinkSync(folders, filePath) ==
    [f \in DOMAIN folders |->
        IF f = filePath[1] THEN SelectSeq(folders[f], LAMBDA file : file.name # filePath[2])
        ELSE folders[f]]

\* fs.existsSync(filePath)
existsSync(filePath) ==
    /\ dirState = "projects"
    /\ \E file \in Range(dir[filePath[1]]) : file.name = filePath[2]

----------------------------------------------------------------------------
(* Inputs *)

\* the session files the external tool writes: content and modification time
FileKinds ==
    { [mtime |-> 2, readable |-> TRUE, lines |-> <<LogRecord(PathW, 1, 1, "user")>>],
      [mtime |-> 3, readable |-> TRUE, lines |-> <<LogRecord(PathW, 2, 2, "user"), GarbageLine>>],
      [mtime |-> 1, readable |-> TRUE,
       lines |-> <<LogRecord(NoPath, 3, 1, "summary"), LogRecord(NoPath, 3, 3, "user")>>],
      [mtime |-> 2, readable |-> TRUE, lines |-> <<LogRecord(PathUpperW, 1, NoTs, "assistant")>>],
      [mtime |-> 3, readable |-> FALSE, lines |-> << >>],
      [mtime |-> 1, readable |-> TRUE, lines |-> << >>] }

\* the session file of the behaviours that exercise the Store operations
PlainFileKind == [mtime |-> 2, readable |-> TRUE, lines |-> <<LogRecord(PathW, 1, 1, "user")>>]

\* what folder F2 can hold
OtherFolderKinds ==
    { [mtime |-> 2, readable |-> TRUE, lines |-> <<LogRecord(PathW, 1, 1, "user")>>],
      [mtime |-> 1, readable |-> TRUE,
       lines |-> <<LogRecord(NoPath, 3, 1, "summary"), LogRecord(NoPath, 3, 3, "user")>>],
      [mtime |-> 2, readable |-> TRUE, lines |-> <<LogRecord(PathUpperW, 1, NoTs, "assistant")>>] }

\* the Projects callers pass to addProject
ProjectInputs ==
    { Project(101, basename(PathW), PathW, 2),
      Project(103, basename(PathUpperW), PathUpperW, 1) }

\* the Sessions callers pass to addSession
SessionInputs ==
    { Session(201, <<"a">>, 102, 1, 4, 1, FALSE, NoFile),
      Session(202, <<"b">>, 101, 1, 1, 1, TRUE, NoFile) }

\* the updates callers pass to updateSession
UpdateInputs == { [projectId |-> 101] }

\* vscode.workspace.workspaceFolders as a set of fsPaths
WorkspaceInputs == { {}, {PathW} }

\* the ids callers pass to deleteProject, refreshProjectSessions, deleteSession, updateSession
ProjectIdInputs == {p.id : p \in Range(projects)} \cup {x.projectId : x \in Range(sessions)}
SessionIdInputs == {x.id : x \in Range(sessions)} \cup {204}

Op(name, passes, roots) == [op |-> name, passes |-> passes, roots |-> roots]

----------------------------------------------------------------------------
(* Initial state: an empty Store beside any state of ~/.claude *)

EmptyDir == [f \in Folders |-> << >>]

\* the constructor found no document, or the document of an empty Store, and
\* the file system works
FreshStore ==
    /\ document = StoredDocument(EmptyStore)
    /\ faults = {}
    /\ lastSave = "none"
    /\ returned = << >>

\* a provider of the serviceProviders setting
Provider(id, activeAccountId) == [id |-> id, activeAccountId |-> activeAccountId]

\* the ids of the providers: the official one and a third-party one
ProviderIds == {"claude_official", "third_party_1"}
NoProvider == Provider("", "")

\* defaultPluginConfig.serviceProviders, and no call of the manager under way
ConfigInit ==
    /\ serviceProviders = << >>
    /\ pendingUpdates = << >>
    /\ effects = [id \in ProviderIds |-> NoProvider]

\* no detection result, promise or detection number: null
NoResult == 0

\* new ClaudePathManager(): nothing cached, nothing under way
DetectInit ==
    /\ pathManager = [cachedResult |-> NoResult, detecting |-> FALSE, detectionPromise |-> NoResult]
    /\ detections = [performing |-> {}, waiting |-> {}, returned |-> {}]

\* no tree item is rendered
NoItem == [sessionId |-> 0, claudeSessionId |-> NoSid]

\* new Map(): no project has a limit of its own
NoLimits == << >>

\* the tree view before any command, beside a constructor that loaded a Store
AsideInit ==
    /\ projectSessionLimits = NoLimits
    /\ item = NoItem
    /\ deleted = {}
    /\ held = "store"
    /\ ConfigInit
    /\ DetectInit

Init ==
    /\ impl \in {"mono", "mod"}
    /\ projects = << >>
    /\ sessions = << >>
    /\ dirState \in {"noClaude", "noProjects", "projects", "blocked"}
    /\ dir = EmptyDir
    /\ lastOp = Op("other", 0, {})
    /\ raised = FALSE
    /\ tombstone = 0
    /\ FreshStore
    /\ AsideInit

----------------------------------------------------------------------------
(* Operations *)

Store(d) ==
    /\ projects' = d.projects
    /\ sessions' = d.sessions

\* the end of an operation: save(data) when the operation reaches its call
\* of save, and whether the operation threw to its caller
Persist(called, d, threw) ==
    LET r == save(d, document, faults)
    IN  /\ document' = IF called THEN r.document ELSE document
        /\ lastSave' = IF called THEN r.outcome ELSE "none"
        /\ raised' = (threw \/ (called /\ r.raised))
        /\ UNCHANGED <<faults, returned>>

\* a step of the environment: no operation of the Store runs
NoStoreCall ==
    /\ lastSave' = "none"
    /\ UNCHANGED <<projects, sessions, raised, document, faults, returned>>

\* whether addProject reaches this.save / saveData
addProjectSaves(d, project) == impl = "mod" \/ getProjectById(d, project.id) = 0

\* whether addSession reaches this.save / saveData
addSessionSaves(d, session) == impl = "mod" \/ sessionIndexById(d, session.id) = 0

\* whether updateSession reaches this.save / saveData
updateSessionSaves(d, sessionId) == sessionIndexById(d, sessionId) # 0

\* whether deleteSession reaches this.save / saveData
deleteSessionSaves(d, sessionId) ==
    impl = "mod" \/ Len(deleteSession(d, sessionId).sessions) < Len(d.sessions)

\* whether deleteProject reaches this.save / saveData
deleteProjectSaves(d, projectId) ==
    impl = "mod" \/ Len(deleteProject(d, projectId).projects) < Len(d.projects)

\* whether syncWithClaudeDirectory reaches this.save / saveData
syncSaves == dirState \in {"noProjects", "projects"}

\* whether refreshProjectSessions reaches this.save
refreshSaves(d, projectId) ==
    impl = "mono" /\ getProjectById(d, projectId) # 0 /\ dirState = "projects"

AddProject(project) ==
    /\ Len(projects) < MaxProjects
    /\ Store(IF impl = "mono" THEN SessionManager_addProject(data, project)
             ELSE ProjectManager_addProject(data, project))
    /\ Persist(addProjectSaves(data, project), data', FALSE)
    /\ lastOp' = Op("other", 0, {})
    /\ UNCHANGED <<impl, dirState, dir, tombstone>>

AddSession(session) ==
    /\ Len(sessions) < MaxSessions
    /\ Store(IF impl = "mono" THEN SessionManager_addSession(data, session)
             ELSE SessionDataManager_addSession(data, session))
    /\ Persist(addSessionSaves(data, session), data', FALSE)
    /\ lastOp' = Op("other", 0, {})
    /\ UNCHANGED <<impl, dirState, dir, tombstone>>

UpdateSession(sessionId, updates) ==
    /\ Store(updateSession(data, sessionId, updates))
    /\ Persist(updateSessionSaves(data, sessionId), data', FALSE)
    /\ lastOp' = Op("other", 0, {})
    /\ UNCHANGED <<impl, dirState, dir, tombstone>>

\* SessionDataManager.deleteSession unlinks the log file first; an unlinkSync
\* that throws is caught
DeleteSession(sessionId) ==
    LET found == sessionIndexById(data, sessionId)
        filePath == sessions[found].filePath
    IN  /\ Store(deleteSession(data, sessionId))
        /\ IF impl = "mod" /\ found # 0 /\ filePath # NoFile /\ existsSync(filePath)
              /\ "unlink" \notin faults
           THEN dir' = unlinkSync(dir, filePath)
           ELSE dir' = dir
        /\ Persist(deleteSessionSaves(data, sessionId), data', FALSE)
        /\ lastOp' = Op("other", 0, {})
        /\ UNCHANGED <<impl, dirState, tombstone>>

DeleteProject(projectId) ==
    /\ Store(deleteProject(data, projectId))
    /\ tombstone' = projectId
    /\ Persist(deleteProjectSaves(data, projectId), data', FALSE)
    /\ lastOp' = Op("other", 0, {})
    /\ UNCHANGED <<impl, dirState, dir>>

\* the full resync result of the implementation that runs
syncWithClaudeDirectory(d, now) ==
    IF impl = "mono" THEN SessionManager_syncWithClaudeDirectory(d, now)
    ELSE ClaudeSyncManager_syncWithClaudeDirectory(d, now)

SyncWithClaudeDirectory ==
    \E now \in Clock :
        LET r == syncWithClaudeDirectory(data, now)
        IN  /\ Store(r.data)
            /\ Persist(syncSaves, r.data, r.raised)
            /\ lastOp' = Op("sync", IF lastOp.op = "sync" THEN 2 ELSE 1, {})
            /\ tombstone' = 0
            /\ UNCHANGED <<impl, dirState, dir>>

refreshProjectSessions(d, projectId, now) ==
    IF impl = "mono" THEN SessionManager_refreshProjectSessions(d, projectId, now)
    ELSE SessionDataManager_refreshProjectSessions(d, projectId, now)

RefreshProjectSessions(projectId) ==
    \E now \in Clock :
        LET r == refreshProjectSessions(data, projectId, now)
        IN  /\ Store(r.data)
            /\ Persist(refreshSaves(data, projectId), r.data, r.raised)
            /\ lastOp' = Op("refresh", 0, {})
            /\ tombstone' = 0
            /\ UNCHANGED <<impl, dirState, dir>>

\* getProjects sorts data.projects in place and returns that array
getProjects(d, workspacePaths) ==
    IF impl = "mono" THEN SessionManager_sortProjectsByWorkspaceRelevance(d, workspacePaths)
    ELSE ProjectManager_sortProjectsByWorkspaceRelevance(d, workspacePaths)

GetProjects(workspacePaths) ==
    /\ projects' = getProjects(data, workspacePaths)
    /\ lastOp' = Op("getProjects", 0, workspacePaths)
    /\ raised' = FALSE
    /\ lastSave' = "none"
    /\ UNCHANGED <<impl, sessions, dirState, dir, tombstone, document, faults, returned>>

getWorkspaceProjects(d, workspacePaths) ==
    IF impl = "mono" THEN SessionManager_getWorkspaceProjects(d, workspacePaths)
    ELSE ProjectManager_getWorkspaceProjects(d, workspacePaths)

GetWorkspaceProjects(workspacePaths) ==
    LET r == getWorkspaceProjects(data, workspacePaths)
    IN  /\ projects' = r.sorted
        /\ returned' = r.returned
        /\ lastOp' = Op("getWorkspaceProjects", 0, workspacePaths)
        /\ raised' = FALSE
        /\ lastSave' = "none"
        /\ UNCHANGED <<impl, sessions, dirState, dir, tombstone, document, faults>>

----------------------------------------------------------------------------
(* The external tool and the user's file system *)

\* a new session file gets the first free name; readdirSync lists by name
ExternalWriteFile(folder, kind, room) ==
    LET names == {file.name : file \in Range(dir[folder])}
        name == MinOf((1..(Len(dir[folder]) + 1)) \ names)
        before == SelectSeq(dir[folder], LAMBDA file : file.name < name)
        after == SelectSeq(dir[folder], LAMBDA file : file.name > name)
        made == SessionFile(name, kind.mtime, kind.readable, kind.lines)
    IN  /\ dirState = "projects"
        /\ Len(dir[folder]) < room
        /\ dir' = [dir EXCEPT ![folder] = before \o <<made>> \o after]
        /\ lastOp' = Op("other", 0, {})
        /\ NoStoreCall
        /\ UNCHANGED <<impl, dirState, tombstone>>

ExternalRemoveFile(folder, name) ==
    /\ dirState = "projects"
    /\ \E file \in Range(dir[folder]) : file.name = name
    /\ dir' = unlinkSync(dir, <<folder, name>>)
    /\ lastOp' = Op("other", 0, {})
    /\ NoStoreCall
    /\ UNCHANGED <<impl, dirState, tombstone>>

\* ~/.claude and ~/.claude/projects appear and disappear; a projects
\* directory that is not listed has no folders
ExternalDirState(state) ==
    /\ state # dirState
    /\ dirState' = state
    /\ dir' = EmptyDir
    /\ lastOp' = Op("other", 0, {})
    /\ NoStoreCall
    /\ UNCHANGED <<impl, tombstone>>

DirStates == {"noClaude", "noProjects", "projects", "blocked"}

\* the Store operations beside a directory of at most one session file
Next ==
    \/ \E project \in ProjectInputs : AddProject(project) /\ UNCHANGED aside
    \/ \E session \in SessionInputs : AddSession(session) /\ UNCHANGED aside
    \/ \E sessionId \in SessionIdInputs, updates \in UpdateInputs : UpdateSession(sessionId, updates) /\ UNCHANGED aside
    \/ \E sessionId \in SessionIdInputs : DeleteSession(sessionId) /\ UNCHANGED aside
    \/ \E projectId \in ProjectIdInputs : DeleteProject(projectId) /\ UNCHANGED aside
    \/ SyncWithClaudeDirectory /\ UNCHANGED aside
    \/ \E projectId \in ProjectIdInputs : RefreshProjectSessions(projectId) /\ UNCHANGED aside
    \/ ExternalWriteFile("F1", PlainFileKind, 1) /\ UNCHANGED aside
    \/ ExternalRemoveFile("F1", 1) /\ UNCHANGED aside
    \/ \E state \in DirStates : ExternalDirState(state) /\ UNCHANGED aside

Spec == Init /\ [][Next]_vars

\* the folder that holds the given files under the names 1, 2, ..
FolderOf(kinds) ==
    [i \in 1..Len(kinds) |-> SessionFile(i, kinds[i].mtime, kinds[i].readable, kinds[i].lines)]

SeqsUpTo(S, n) == UNION {[1..k -> S] : k \in 0..n}

\* every directory of up to MaxFiles session files in F1 and one in F2
InitDir ==
    /\ impl \in {"mono", "mod"}
    /\ projects = << >>
    /\ sessions = << >>
    /\ dirState = "projects"
    /\ \E one \in SeqsUpTo(FileKinds, MaxFiles), two \in SeqsUpTo(OtherFolderKinds, 1) :
           dir = [f \in Folders |-> IF f = "F1" THEN FolderOf(one) ELSE FolderOf(two)]
    /\ lastOp = Op("other", 0, {})
    /\ raised = FALSE
    /\ tombstone = 0
    /\ FreshStore
    /\ AsideInit

\* the passes over that directory, and what happens to it from outside
NextDir ==
    \/ SyncWithClaudeDirectory /\ UNCHANGED aside
    \/ \E projectId \in ProjectIdInputs : RefreshProjectSessions(projectId) /\ UNCHANGED aside
    \/ \E folder \in Folders, name \in 1..MaxFiles : ExternalRemoveFile(folder, name) /\ UNCHANGED aside
    \/ \E state \in DirStates : ExternalDirState(state) /\ UNCHANGED aside

SpecDir == InitDir /\ [][NextDir]_vars

----------------------------------------------------------------------------
(* The queries: getProjects and getWorkspaceProjects over a loaded Store *)

\* the Projects a loaded document can hold
ListedProjects ==
    { Project(101, basename(PathW), PathW, 2),
      Project(102, basename(PathX), PathX, 1),
      Project(103, basename(PathUpperW), PathUpperW, 1),
      Project(104, basename(PathWSub), PathWSub, 1),
      Project(105, basename(PathWs), PathWs, 1) }

\* the constructor loaded a document of up to MaxListed Projects with their Sessions
InitQuery ==
    /\ impl \in {"mono", "mod"}
    /\ projects \in {ps \in SeqsUpTo(ListedProjects, MaxListed) :
                        \A i, j \in DOMAIN ps : i # j => ps[i].id # ps[j].id}
    /\ sessions \in {ss \in SeqsUpTo(SessionInputs, 1) : TRUE}
    /\ dirState = "noClaude"
    /\ dir = EmptyDir
    /\ lastOp = Op("other", 0, {})
    /\ raised = FALSE
    /\ tombstone = 0
    /\ document = StoredDocument(data)
    /\ faults = {}
    /\ lastSave = "none"
    /\ returned = << >>
    /\ AsideInit

NextQuery ==
    \/ \E workspacePaths \in WorkspaceInputs : GetProjects(workspacePaths) /\ UNCHANGED aside
    \/ \E workspacePaths \in WorkspaceInputs : GetWorkspaceProjects(workspacePaths) /\ UNCHANGED aside

SpecQuery == InitQuery /\ [][NextQuery]_vars

----------------------------------------------------------------------------
(* Naming: one session file whose first user message is any of the messages *)

\* "do the thing please"
ThingText == <<"d", "o", " ", "t", "h", "e", " ", "t", "h", "i", "n", "g", " ", "p", "l", "e", "a", "s", "e">>

\* what the user typed: every text of up to MaxShort characters over a letter
\* and a blank, the text above, a text with a cd inside, and texts around
\* NameLimit characters with and without a blank near the cut
MessageTexts ==
    SeqsUpTo({"a", " "}, MaxShort)
        \cup {ThingText, <<"r", "u", "n", " ", "c", "d", " ", "/", "t", "m", "p", " ", "n", "o", "w">>}
        \cup {[i \in 1..n |-> "a"] : n \in (NameLimit - 1)..(NameLimit + MaxOver)}
        \cup {[i \in 1..(NameLimit + MaxOver) |-> IF i = NameLimit THEN " " ELSE "a"]}

\* "cd /foo && ", "cd \"/my dir\" && " and "cd /foo\n" before the text
CdPrefixes == { <<"c", "d", " ", "/", "f", "o", "o", " ", "&", "&", " ">>, <<"c", "d", " ", "\"", "/", "m", "y", " ", "d", "i", "r", "\"", " ", "&", "&", " ">>, <<"c", "d", " ", "/", "f", "o", "o", "\n">> }

NewlineText == <<"\n">>

\* message.content of a user record
MessageContents ==
    {StringContent(pre \o text \o post) :
        pre \in CdPrefixes \cup {<< >>}, text \in MessageTexts, post \in {<< >>, NewlineText}}
        \cup {TextArrayContent(text) : text \in SeqsUpTo({"a", " "}, MaxShort) \cup {ThingText}}
        \cup {ObjectContent, NoContent}

\* the records of the session file
NamedLogs ==
    {<<UserRecord(PathW, 1, 1, content)>> : content \in MessageContents}
        \cup {<<LogRecord(PathW, 1, 1, "assistant"), UserRecord(PathW, 1, 1, content)>> :
                  content \in MessageContents}
        \cup {<<UserRecord(PathW, 1, 1, content), UserRecord(PathW, 1, 1, StringContent(ThingText))>> :
                  content \in {NoContent, StringContent(<<"a">>)}}
        \cup {<<LogRecord(PathW, 1, 1, "assistant")>>,
              <<LogRecord(PathW, 1, 1, "summary"), LogRecord(PathW, 1, 1, "assistant")>>}

InitName ==
    /\ impl \in {"mono", "mod"}
    /\ projects = << >>
    /\ sessions = << >>
    /\ dirState = "projects"
    /\ \E lines \in NamedLogs :
           dir = [f \in Folders |-> IF f = "F1" THEN <<SessionFile(1, 1, TRUE, lines)>> ELSE << >>]
    /\ lastOp = Op("other", 0, {})
    /\ raised = FALSE
    /\ tombstone = 0
    /\ FreshStore
    /\ AsideInit

NextName ==
    \/ SyncWithClaudeDirectory /\ UNCHANGED aside
    \/ \E projectId \in ProjectIdInputs : RefreshProjectSessions(projectId) /\ UNCHANGED aside

SpecName == InitName /\ [][NextName]_vars

----------------------------------------------------------------------------
(* The document: load and save beside a file system that can fail *)

load(doc, failing) ==
    IF impl = "mono" THEN SessionManager_load(doc, failing) ELSE StorageManager_load(doc, failing)

\* the constructor, this.data = this.load(), over the document given
Loaded(doc) ==
    LET r == load(doc, faults)
    IN  /\ projects = r.data.projects
        /\ sessions = r.data.sessions
        /\ document = r.document
        /\ lastSave = r.outcome
        /\ raised = r.raised

\* the documents the constructor can find at first
FirstDocuments ==
    {AbsentDocument, UnparsableDocument, StoredDocument(EmptyStore)}
        \cup {StoredDocument(StoreData(<<project>>, << >>)) : project \in ProjectInputs}

InitStore ==
    /\ impl \in {"mono", "mod"}
    /\ faults \in SUBSET {"write", "rename"}
    /\ \E doc \in FirstDocuments : Loaded(doc)
    /\ dirState = "noClaude"
    /\ dir = EmptyDir
    /\ lastOp = Op("load", 0, {})
    /\ tombstone = 0
    /\ returned = << >>
    /\ AsideInit

\* the extension host restarts: a new SessionManager loads the document
Construct ==
    LET r == load(document, faults)
    IN  /\ Store(r.data)
        /\ document' = r.document
        /\ lastSave' = r.outcome
        /\ raised' = r.raised
        /\ lastOp' = Op("load", 0, {})
        /\ tombstone' = 0
        /\ returned' = << >>
        /\ UNCHANGED <<impl, dirState, dir, faults>>

\* a file system call starts or stops failing
ExternalFault(call) ==
    /\ faults' = IF call \in faults THEN faults \ {call} ELSE faults \cup {call}
    /\ lastSave' = "none"
    /\ lastOp' = Op("other", 0, {})
    /\ UNCHANGED <<impl, projects, sessions, dirState, dir, raised, tombstone, document, returned>>

\* the document is truncated, edited by hand or removed
ExternalDocument(doc) ==
    /\ document.kind # doc.kind
    /\ document' = doc
    /\ lastSave' = "none"
    /\ lastOp' = Op("other", 0, {})
    /\ UNCHANGED <<impl, projects, sessions, dirState, dir, raised, tombstone, faults, returned>>

\* there is a SessionManager: the constructor that ran last did not throw
Constructed == ~(lastOp.op = "load" /\ raised)

NextStore ==
    \/ Constructed /\ \E project \in ProjectInputs : AddProject(project) /\ UNCHANGED aside
    \/ Constructed /\ \E session \in SessionInputs : AddSession(session) /\ UNCHANGED aside
    \/ Constructed /\ \E sessionId \in SessionIdInputs, updates \in UpdateInputs :
                          UpdateSession(sessionId, updates) /\ UNCHANGED aside
    \/ Constructed /\ \E projectId \in ProjectIdInputs : DeleteProject(projectId) /\ UNCHANGED aside
    \/ Construct /\ UNCHANGED aside
    \/ \E call \in {"write", "rename"} : ExternalFault(call) /\ UNCHANGED aside
    \/ \E doc \in {AbsentDocument, UnparsableDocument} : ExternalDocument(doc) /\ UNCHANGED aside

SpecStore == InitStore /\ [][NextStore]_vars

----------------------------------------------------------------------------
(* The file cap: one folder of up to MaxCapFiles well-formed session files *)

\* file i of the folder: its own sessionId, modification time from the stride
CapFile(i, stride) ==
    SessionFile(i, ((i * stride) % MaxMtime) + 1, TRUE, <<LogRecord(PathW, i, 1, "user")>>)

InitCap ==
    /\ impl \in {"mono", "mod"}
    /\ projects = << >>
    /\ sessions = << >>
    /\ dirState = "projects"
    /\ \E n \in 0..MaxCapFiles, stride \in 1..(MaxMtime - 1) :
           dir = [f \in Folders |-> IF f = "F1" THEN [i \in 1..n |-> CapFile(i, stride)] ELSE << >>]
    /\ lastOp = Op("other", 0, {})
    /\ raised = FALSE
    /\ tombstone = 0
    /\ FreshStore
    /\ AsideInit

\* the external tool appends to a session file: it becomes the newest
ExternalTouchFile(folder, name) ==
    /\ dirState = "projects"
    /\ \E i \in DOMAIN dir[folder] :
           /\ dir[folder][i].name = name
           /\ dir[folder][i].mtime < MaxMtime
           /\ dir' = [dir EXCEPT ![folder][i].mtime = MaxMtime]
    /\ lastOp' = Op("other", 0, {})
    /\ NoStoreCall
    /\ UNCHANGED <<impl, dirState, tombstone>>

NextCap ==
    \/ SyncWithClaudeDirectory /\ UNCHANGED aside
    \/ \E name \in 1..2 : ExternalTouchFile("F1", name) /\ UNCHANGED aside

SpecCap == InitCap /\ [][NextCap]_vars

----------------------------------------------------------------------------
(* ClaudeSessionProvider (src/treeProvider.ts): the children of a project *)

\* a tree item of a Session and the "Load more" item of a project
SessionItem(session) == [kind |-> "session", sessionId |-> session.id, projectId |-> 0]
LoadMoreItem(projectId) == [kind |-> "loadMore", sessionId |-> 0, projectId |-> projectId]

\* this.projectSessionLimits.get(projectId) || this.DEFAULT_SESSIONS_LIMIT
currentLimitOf(limits, projectId) ==
    IF projectId \in DOMAIN limits /\ limits[projectId] # 0 THEN limits[projectId]
    ELSE DEFAULT_SESSIONS_LIMIT

\* this.projectSessionLimits.set(projectId, newLimit)
MapSet(limits, projectId, newLimit) ==
    [k \in DOMAIN limits \cup {projectId} |-> IF k = projectId THEN newLimit ELSE limits[k]]

\* allSessions.sort((a, b) => new Date(b.createdAt).getTime() - new Date(a.createdAt).getTime()):
\* the sort is stable, so a Session goes behind those created later and
\* behind those created at the same instant that stood before it
sortByCreatedAtDesc(allSessions) ==
    LET before(i) == {j \in DOMAIN allSessions :
                         \/ allSessions[j].createdAt > allSessions[i].createdAt
                         \/ /\ allSessions[j].createdAt = allSessions[i].createdAt
                            /\ j < i}
    IN  CHOOSE sorted \in
            { [k \in DOMAIN allSessions |-> allSessions[CHOOSE i \in DOMAIN allSessions : place[i] = k]]
                  : place \in {[i \in DOMAIN allSessions |-> Cardinality(before(i)) + 1]} } : TRUE

\* ClaudeSessionProvider.getSessions that offers no "Load more" item
ClaudeSessionProvider_getSessions_NoLoadMore(d, limits, projectId) ==
    LET sortedSessions == sortByCreatedAtDesc(getSessions(d, projectId))
        currentLimit == currentLimitOf(limits, projectId)
        displaySessions == slice0(sortedSessions, currentLimit)
    IN  [k \in DOMAIN displaySessions |-> SessionItem(displaySessions[k])]

\* ClaudeSessionProvider.getSessions(projectId): the items under a project
ClaudeSessionProvider_getSessions(d, limits, projectId) ==
    LET sortedSessions == sortByCreatedAtDesc(getSessions(d, projectId))
        currentLimit == currentLimitOf(limits, projectId)
        displaySessions == slice0(sortedSessions, currentLimit)
        sessionItems == [k \in DOMAIN displaySessions |-> SessionItem(displaySessions[k])]
    IN  IF Len(sortedSessions) > currentLimit
        THEN Append(sessionItems, LoadMoreItem(projectId))
        ELSE sessionItems

\* ClaudeSessionProvider.loadMoreSessions(projectId); the model stops at
\* MaxMore calls for a project
LoadMoreSessions(projectId) ==
    LET currentLimit == currentLimitOf(projectSessionLimits, projectId)
        newLimit == currentLimit + DEFAULT_SESSIONS_LIMIT
    IN  /\ currentLimit < (MaxMore + 1) * DEFAULT_SESSIONS_LIMIT
        /\ projectSessionLimits' = MapSet(projectSessionLimits, projectId, newLimit)
        /\ lastOp' = Op("other", 0, {})
        /\ NoStoreCall
        /\ UNCHANGED <<impl, dirState, dir, tombstone, item, deleted, held, configVars, detectVars>>

----------------------------------------------------------------------------
(* Paging: two projects, one of them with up to MaxShown Sessions *)

\* the orders in which the creation instants of a project's Sessions stand in
\* data.sessions: rising, falling, and with Sessions of the same instant
CreatedAtOrders == {"rising", "falling", "ties"}

CreatedAtOf(order, i, n) ==
    IF order = "rising" THEN i
    ELSE IF order = "falling" THEN n + 1 - i
    ELSE (i % 3) + 1

\* n Sessions of a project, with ids from base + 1
SessionsOfProject(projectId, base, n, order) ==
    [i \in 1..n |-> Session(base + i, <<"s">>, projectId, CreatedAtOf(order, i, n),
                            CreatedAtOf(order, i, n), NoSid, FALSE, NoFile)]

InitPaging ==
    /\ impl \in {"mono", "mod"}
    /\ projects = <<Project(101, basename(PathW), PathW, 2), Project(102, basename(PathX), PathX, 1)>>
    /\ \E n \in 0..MaxShown, order \in CreatedAtOrders, m \in {0, DEFAULT_SESSIONS_LIMIT + 1} :
           sessions = SessionsOfProject(101, 1000, n, order) \o SessionsOfProject(102, 2000, m, "rising")
    /\ dirState = "noClaude"
    /\ dir = EmptyDir
    /\ lastOp = Op("other", 0, {})
    /\ raised = FALSE
    /\ tombstone = 0
    /\ document = StoredDocument(data)
    /\ faults = {}
    /\ lastSave = "none"
    /\ returned = << >>
    /\ AsideInit

NextPaging ==
    \/ \E projectId \in {p.id : p \in Range(projects)} : LoadMoreSessions(projectId)

SpecPaging == InitPaging /\ [][NextPaging]_vars

----------------------------------------------------------------------------
(* The deleteSession command: tree item, modal confirmation, deletion *)

\* vscode.workspace.workspaceFolders of the window that shows the tree
TreeWorkspace == {PathW}

\* the Sessions that have an item in the tree rendered last: those of the
\* projects getWorkspaceProjects returned, up to the limit of their project
ShownSessions ==
    {x \in Range(sessions) :
        /\ \E p \in Range(returned) : p.id = x.projectId
        /\ \A children \in {ClaudeSessionProvider_getSessions(data, projectSessionLimits, x.projectId)} :
               \E k \in DOMAIN children : children[k] = SessionItem(x)}

\* the handler of cc-copilot.deleteSession up to its await: the modal opens
\* for the item the user picked in the tree rendered from the present Store
InvokeDeleteSession(x) ==
    /\ lastOp.op = "getWorkspaceProjects"
    /\ item = NoItem
    /\ x \in ShownSessions
    /\ item' = [sessionId |-> x.id, claudeSessionId |-> x.claudeSessionId]
    /\ lastOp' = Op("other", 0, {})
    /\ NoStoreCall
    /\ UNCHANGED <<impl, dirState, dir, tombstone, projectSessionLimits, deleted, held,
                   configVars, detectVars>>

\* the handler after its await when the user chose 'Delete':
\* sessionProvider.deleteSession(item.sessionId)
ConfirmDelete ==
    LET found == sessionIndexById(data, item.sessionId)
        fileBacked == /\ found # 0
                      /\ sessions[found].filePath # NoFile
                      /\ existsSync(sessions[found].filePath)
    IN  /\ item # NoItem
        /\ DeleteSession(item.sessionId)
        /\ item' = NoItem
        /\ deleted' = IF fileBacked THEN deleted \cup {sessions[found].claudeSessionId} ELSE deleted
        /\ UNCHANGED <<projectSessionLimits, held, configVars, detectVars>>

\* the handler after its await when the user closed the modal
DismissDelete ==
    /\ item # NoItem
    /\ item' = NoItem
    /\ lastOp' = Op("other", 0, {})
    /\ NoStoreCall
    /\ UNCHANGED <<impl, dirState, dir, tombstone, projectSessionLimits, deleted, held,
                   configVars, detectVars>>

\* every directory of up to MaxFiles session files in F1 and one in F2; the
\* external tool writes nothing afterwards
InitTree ==
    /\ impl \in {"mono", "mod"}
    /\ projects = << >>
    /\ sessions = << >>
    /\ dirState = "projects"
    /\ \E one \in SeqsUpTo(FileKinds, MaxFiles), two \in SeqsUpTo(OtherFolderKinds, 1) :
           dir = [f \in Folders |-> IF f = "F1" THEN FolderOf(one) ELSE FolderOf(two)]
    /\ lastOp = Op("other", 0, {})
    /\ raised = FALSE
    /\ tombstone = 0
    /\ document = StoredDocument(EmptyStore)
    /\ faults \in SUBSET {"unlink"}
    /\ lastSave = "none"
    /\ returned = << >>
    /\ AsideInit

\* the 30-second timer's resync, the rendering of the tree and the command
NextTree ==
    \/ SyncWithClaudeDirectory /\ UNCHANGED aside
    \/ GetWorkspaceProjects(TreeWorkspace) /\ UNCHANGED aside
    \/ \E x \in Range(sessions) : InvokeDeleteSession(x)
    \/ ConfirmDelete
    \/ DismissDelete

SpecTree == InitTree /\ [][NextTree]_vars

----------------------------------------------------------------------------
(* The constructor over any document that parses, and the calls after it *)

\* the documents the constructor can find
ShapeDocuments ==
    {AbsentDocument, UnparsableDocument, StoredDocument(EmptyStore)}
        \cup {StoredDocument(StoreData(<<project>>, << >>)) : project \in ProjectInputs}
        \cup {ForeignDocument(kind) : kind \in ForeignKinds}

\* this.data = this.load() with what JSON.parse gave
ConstructAny ==
    /\ Construct
    /\ held' = load(document, faults).holds
    /\ UNCHANGED <<projectSessionLimits, item, deleted, configVars, detectVars>>

\* this.data.sessions or this.data.projects is read while this.data is null or
\* has no such list: the call throws a TypeError and changes nothing
TypeError(call) ==
    /\ held # "store"
    /\ raised' = TRUE
    /\ lastOp' = Op(call, 0, {})
    /\ lastSave' = "none"
    /\ UNCHANGED <<impl, projects, sessions, dirState, dir, tombstone, document, faults, returned>>
    /\ UNCHANGED aside

\* getSessions(projectId): this.data.sessions.filter(..)
GetSessions(projectId) ==
    /\ held = "store"
    /\ raised' = FALSE
    /\ lastOp' = Op("getSessions", 0, {})
    /\ lastSave' = "none"
    /\ UNCHANGED <<impl, projects, sessions, dirState, dir, tombstone, document, faults, returned>>
    /\ UNCHANGED aside

InitShape ==
    /\ impl \in {"mono", "mod"}
    /\ faults = {}
    /\ \E doc \in ShapeDocuments :
           /\ Loaded(doc)
           /\ held = load(doc, faults).holds
    /\ dirState = "noClaude"
    /\ dir = EmptyDir
    /\ lastOp = Op("load", 0, {})
    /\ tombstone = 0
    /\ returned = << >>
    /\ projectSessionLimits = NoLimits
    /\ item = NoItem
    /\ deleted = {}
    /\ ConfigInit
    /\ DetectInit

NextShape ==
    \/ \E projectId \in {101} : GetSessions(projectId) \/ TypeError("getSessions")
    \/ \E workspacePaths \in {{PathW}} :
           \/ held = "store" /\ GetProjects(workspacePaths) /\ UNCHANGED aside
           \/ TypeError("getProjects")
    \/ \E project \in ProjectInputs :
           \/ held = "store" /\ AddProject(project) /\ UNCHANGED aside
           \/ TypeError("addProject")
    \/ \E session \in SessionInputs :
           \/ held = "store" /\ AddSession(session) /\ UNCHANGED aside
           \/ TypeError("addSession")
    \/ \E projectId \in {101} :
           \/ held = "store" /\ DeleteProject(projectId) /\ UNCHANGED aside
           \/ TypeError("deleteProject")
    \/ ConstructAny
    \/ \E doc \in ShapeDocuments : ExternalDocument(doc) /\ UNCHANGED aside

SpecShape == InitShape /\ [][NextShape]_vars

----------------------------------------------------------------------------
(* UnifiedConfigManager (src/shared/config-manager.ts): the providers setting *)

\* the SessionManager, its files and the external directory
storeVars == <<impl, projects, sessions, dirState, dir, lastOp, raised, tombstone,
               document, faults, lastSave, returned>>

\* the providers the calls pass: the official provider with either account
\* active (refreshClaudeAccounts, setActiveAccount) and a new third-party
\* provider (addThirdPartyAccount)
ProviderInputs ==
    { Provider("claude_official", "a"), Provider("claude_official", "b"),
      Provider("third_party_1", "x") }

\* providers[existingIndex] = provider, or providers.push(provider)
upsertProvider(providers, provider) ==
    IF \E i \in DOMAIN providers : providers[i].id = provider.id
    THEN [i \in DOMAIN providers |-> IF providers[i].id = provider.id THEN provider ELSE providers[i]]
    ELSE Append(providers, provider)

\* addOrUpdateServiceProvider(provider) up to its await: it reads the setting,
\* puts the provider into its copy and sends the copy with config.update
AddOrUpdateServiceProvider(provider) ==
    /\ Len(pendingUpdates) < MaxInFlight
    /\ pendingUpdates' = Append(pendingUpdates,
                                [provider |-> provider,
                                 serviceProviders |-> upsertProvider(serviceProviders, provider)])
    /\ effects' = [effects EXCEPT ![provider.id] = provider]
    /\ UNCHANGED <<serviceProviders, storeVars, projectSessionLimits, item, deleted, held, detectVars>>

\* the config.update sent first takes effect: the setting is the array that
\* call sent, and the call resumes after its await
ConfigurationUpdated ==
    /\ pendingUpdates # << >>
    /\ serviceProviders' = Head(pendingUpdates).serviceProviders
    /\ pendingUpdates' = Tail(pendingUpdates)
    /\ UNCHANGED <<effects, storeVars, projectSessionLimits, item, deleted, held, detectVars>>

InitConfig ==
    /\ impl \in {"mono", "mod"}
    /\ projects = << >>
    /\ sessions = << >>
    /\ dirState = "noClaude"
    /\ dir = EmptyDir
    /\ lastOp = Op("other", 0, {})
    /\ raised = FALSE
    /\ tombstone = 0
    /\ FreshStore
    /\ AsideInit

\* the 10-second timer and the user's commands call the manager
NextConfig ==
    \/ \E provider \in ProviderInputs : AddOrUpdateServiceProvider(provider)
    \/ ConfigurationUpdated

SpecConfig == InitConfig /\ [][NextConfig]_vars

----------------------------------------------------------------------------
(* ClaudePathManager.detectClaudePath: detections and the calls that wait *)

\* a detectClaudePath that lets forceRedetect start a detection beside the one
\* under way
detectClaudePath_ForceStartsAnew(pm, forceRedetect) ==
    IF pm.detecting /\ pm.detectionPromise # NoResult /\ ~forceRedetect THEN "wait"
    ELSE IF pm.cachedResult # NoResult /\ ~forceRedetect THEN "cached"
    ELSE "detect"

\* the branch detectClaudePath takes before its first await: it returns the
\* promise of the detection under way, or the cached result, or it starts a
\* detection
detectClaudePath(pm, forceRedetect) ==
    IF pm.detecting /\ pm.detectionPromise # NoResult THEN "wait"
    ELSE IF pm.cachedResult # NoResult /\ ~forceRedetect THEN "cached"
    ELSE "detect"

\* a call of detectClaudePath: its number, its argument, what it found when
\* it was made (the detection that was running, the detecting flag, the
\* cache), the promise it waits for and whether it started that detection,
\* and the result it gave, NoResult while it waits
DetectCall(call, forceRedetect, awaits, owner, result) ==
    [call |-> call, forceRedetect |-> forceRedetect,
     during |-> IF detections.performing = {} THEN NoResult
                ELSE CHOOSE k \in detections.performing : TRUE,
     detectingBefore |-> pathManager.detecting,
     cachedBefore |-> pathManager.cachedResult,
     awaits |-> awaits, owner |-> owner, result |-> result]

\* the calls and the detections made so far
CallsMade == Cardinality(detections.waiting) + Cardinality(detections.returned)
DetectionsMade == Cardinality({c \in detections.waiting \cup detections.returned : c.owner})

\* detectClaudePath(forceRedetect) up to its first await or its return; the
\* result of the k-th performDetection is k
DetectClaudePath(forceRedetect) ==
    LET branch == detectClaudePath(pathManager, forceRedetect)
        call == CallsMade + 1
        k == DetectionsMade + 1
    IN  /\ call <= MaxCalls
        /\ IF branch = "wait"
           THEN /\ detections' = [detections EXCEPT !.waiting = @ \cup
                      {DetectCall(call, forceRedetect, pathManager.detectionPromise, FALSE, NoResult)}]
                /\ UNCHANGED pathManager
           ELSE IF branch = "cached"
           THEN /\ detections' = [detections EXCEPT !.returned = @ \cup
                      {DetectCall(call, forceRedetect, NoResult, FALSE, pathManager.cachedResult)}]
                /\ UNCHANGED pathManager
           ELSE /\ pathManager' = [pathManager EXCEPT !.detecting = TRUE, !.detectionPromise = k]
                /\ detections' = [detections EXCEPT
                      !.performing = @ \cup {k},
                      !.waiting = @ \cup {DetectCall(call, forceRedetect, k, TRUE, NoResult)}]
        /\ UNCHANGED <<storeVars, projectSessionLimits, item, deleted, held, configVars>>

\* performDetection returns its result: its promise is fulfilled
PerformDetectionReturns(k) ==
    /\ k \in detections.performing
    /\ detections' = [detections EXCEPT !.performing = @ \ {k}]
    /\ UNCHANGED <<pathManager, storeVars, projectSessionLimits, item, deleted, held, configVars>>

\* a call resumes after the promise it waits for is fulfilled; the call that
\* started the detection caches the result and runs its finally block
CallResumes(c) ==
    /\ c \in detections.waiting
    /\ c.awaits \notin detections.performing
    /\ detections' = [detections EXCEPT !.waiting = @ \ {c},
                                        !.returned = @ \cup {[c EXCEPT !.result = c.awaits]}]
    /\ pathManager' = IF c.owner
                      THEN [cachedResult |-> c.awaits, detecting |-> FALSE, detectionPromise |-> NoResult]
                      ELSE pathManager
    /\ UNCHANGED <<storeVars, projectSessionLimits, item, deleted, held, configVars>>

InitDetect ==
    /\ impl \in {"mono", "mod"}
    /\ projects = << >>
    /\ sessions = << >>
    /\ dirState = "noClaude"
    /\ dir = EmptyDir
    /\ lastOp = Op("other", 0, {})
    /\ raised = FALSE
    /\ tombstone = 0
    /\ FreshStore
    /\ AsideInit

NextDetect ==
    \/ \E forceRedetect \in BOOLEAN : DetectClaudePath(forceRedetect)
    \/ \E k \in 1..MaxCalls : PerformDetectionReturns(k)
    \/ \E c \in detections.waiting : CallResumes(c)

SpecDetect == InitDetect /\ [][NextDetect]_vars

----------------------------------------------------------------------------
(* Properties *)

SyncCompleted == lastOp.op = "sync"

\* the session files of a folder that a pass reads
ReadFiles(folder) == Range(cappedSessionFiles(dir[folder]))

\* C1: a full resync that finds no ~/.claude/projects leaves projects and
\* sessions exactly as they were and does not throw, whether or not ~/.claude
\* itself exists
C1_MissingRootIsNoOp ==
    [][(lastOp'.op = "sync" /\ dirState \in {"noClaude", "noProjects"})
        => (projects' = projects /\ sessions' = sessions /\ ~raised')]_vars

\* a readable file of one valid record followed by one unparsable line
ValidThenGarbage(file) ==
    /\ file.readable
    /\ Len(file.lines) = 2
    /\ file.lines[1].parses
    /\ ~file.lines[2].parses

\* C2: after a full resync, every session file that is one valid record (naming
\* the working directory) followed by one unparsable line has its Session: the
\* Store holds a Session with the record's sessionId
C2_ValidLineSurvivesGarbage ==
    (SyncCompleted /\ dirState = "projects") =>
        \A folder \in Folders : \A file \in ReadFiles(folder) :
            (ValidThenGarbage(file) /\ file.lines[1].cwd # NoPath) =>
                \E x \in Range(sessions) : x.claudeSessionId = file.lines[1].sessionId

\* every line of the file parses and there is at least one
WellFormed(file) ==
    /\ file.readable
    /\ file.lines # << >>
    /\ \A i \in DOMAIN file.lines : file.lines[i].parses

\* some parsable record of the file names a working directory
NamesWorkingDirectory(file) ==
    /\ file.readable
    /\ \E i \in DOMAIN file.lines : file.lines[i].parses /\ file.lines[i].cwd # NoPath

\* C3: a full resync over a listable ~/.claude/projects never throws, and in
\* every folder whose files name a working directory each well-formed session
\* file is synchronized (the Store holds a Session with its sessionId), whatever
\* malformed or unreadable files lie beside it
C3_MalformedFileNeverAborts ==
    (SyncCompleted /\ dirState = "projects") =>
        /\ ~raised
        /\ \A folder \in Folders :
              (\E file \in ReadFiles(folder) : NamesWorkingDirectory(file)) =>
                  \A file \in ReadFiles(folder) :
                      WellFormed(file) =>
                          \E x \in Range(sessions) : x.claudeSessionId = file.lines[1].sessionId

\* C4: a full resync that follows a full resync, with nothing in between, leaves
\* as many Projects and as many Sessions as the first
C4_ResyncKeepsCounts ==
    [][(lastOp.op = "sync" /\ lastOp'.op = "sync")
        => (Len(projects') = Len(projects) /\ Len(sessions') = Len(sessions))]_vars

C4_Witness ==
    /\ lastOp = Op("sync", 2, {})
    /\ dirState = "projects"
    /\ Len(projects) = 2
    /\ Len(sessions) >= 2

\* the Sessions whose log file lies in the folder
SessionsFrom(folder) ==
    {x \in Range(sessions) : x.filePath # NoFile /\ x.filePath[1] = folder}

\* the files of the folder modified after the log file of the Session
NewerFiles(x) ==
    LET folder == x.filePath[1]
        own == CHOOSE file \in Range(dir[folder]) : file.name = x.filePath[2]
    IN  {file \in Range(dir[folder]) : file.mtime > own.mtime}

\* C5: after a full resync at most 20 Sessions come from one folder, and the
\* log file of each of them is among the 20 most recently modified files of its
\* folder: fewer than 20 files of the folder are newer than it
C5_OnlyNewestTwentyFiles ==
    (SyncCompleted /\ dirState = "projects") =>
        \A folder \in Folders :
            /\ Cardinality(SessionsFrom(folder)) <= SessionFileCap
            /\ \A x \in SessionsFrom(folder) :
                  /\ \E file \in Range(dir[folder]) : file.name = x.filePath[2]
                  /\ Cardinality(NewerFiles(x)) < SessionFileCap

C5_Witness ==
    /\ SyncCompleted
    /\ Len(dir["F1"]) > SessionFileCap
    /\ Cardinality(SessionsFrom("F1")) = SessionFileCap
    /\ \E file \in Range(dir["F1"]) :
           \A x \in SessionsFrom("F1") : x.filePath[2] # file.name

\* C6: no two Projects of the Store have paths that are equal after case and
\* separator normalization
C6_OneProjectPerPath ==
    \A i, j \in DOMAIN projects :
        i # j => ~arePathsEqual(projects[i].path, projects[j].path)

\* C7: no two Sessions of the Store have the same claudeSessionId
C7_OneSessionPerClaudeId ==
    \A i, j \in DOMAIN sessions :
        (i # j /\ sessions[i].claudeSessionId # NoSid)
            => sessions[i].claudeSessionId # sessions[j].claudeSessionId

\* every Session of the Store belongs to a Project of the Store
ReferentialIntegrity ==
    \A x \in Range(sessions) : \E p \in Range(projects) : p.id = x.projectId

\* C8 as claimed: when a full resync or a per-project refresh has completed,
\* every Session belongs to a Project of the Store
C8_IntegrityAfterEveryPass ==
    lastOp.op \in {"sync", "refresh"} => ReferentialIntegrity

\* C8: when a full resync that found ~/.claude has completed, every Session
\* belongs to a Project of the Store
C8_IntegrityAfterFullResync ==
    (SyncCompleted /\ dirState # "noClaude") => ReferentialIntegrity

C8_Witness ==
    /\ SyncCompleted
    /\ dirState = "projects"
    /\ sessions # << >>
    /\ impl = "mono"

\* C9 as claimed: from deleteProject(id) until the next pass, getSessions(id)
\* is empty
C9_DeletedProjectStaysEmpty ==
    tombstone # 0 => getSessions(data, tombstone) = << >>

AddsOrUpdatesSession ==
    \/ \E session \in SessionInputs : AddSession(session)
    \/ \E sessionId \in SessionIdInputs, updates \in UpdateInputs : UpdateSession(sessionId, updates)

\* C9: deleteProject(id) leaves getSessions(id) empty and the Sessions of every
\* other project as they were, and getSessions(id) stays empty in every later
\* step up to the next pass other than an addSession or updateSession
C9_DeletedProjectEmptyUntilSessionStored ==
    [][/\ \A projectId \in ProjectIdInputs :
              (tombstone' = projectId /\ DeleteProject(projectId)) =>
                  /\ getSessions(data', projectId) = << >>
                  /\ \A other \in ProjectIdInputs \ {projectId} :
                         getSessions(data', other) = getSessions(data, other)
       /\ (/\ tombstone # 0
           /\ tombstone' = tombstone
           /\ getSessions(data, tombstone) = << >>
           /\ getSessions(data', tombstone) # << >>)
              => AddsOrUpdatesSession]_vars

C9_Witness ==
    /\ tombstone # 0
    /\ lastOp.op = "other"
    /\ getProjectById(data, tombstone) = 0
    /\ getSessions(data, tombstone) = << >>
    /\ sessions # << >>
    /\ projects # << >>

\* C10: the list getProjects returns has the Projects whose path is a workspace
\* folder before all others, and inside each of the two groups the Projects in
\* descending order of activity
C10_WorkspaceThenActivity ==
    lastOp.op = "getProjects" =>
        LET isRoot(p) == \E wsPath \in lastOp.roots : arePathsEqual(p.path, wsPath)
        IN  \A i, j \in DOMAIN projects :
                i < j =>
                    /\ isRoot(projects[j]) => isRoot(projects[i])
                    /\ (isRoot(projects[i]) <=> isRoot(projects[j]))
                           => lastActive(data, projects[i]) >= lastActive(data, projects[j])

\* what arePathsEqual, the comparison after path.normalize and toLowerCase,
\* makes of a Project and the workspace folders
IsWorkspaceRoot(project, workspacePaths) ==
    \E wsPath \in workspacePaths : arePathsEqual(project.path, wsPath)

\* C11: getWorkspaceProjects returns exactly the Projects whose path equals
\* the path of a workspace folder under the case- and separator-normalized
\* comparison, so a Project in a strict subdirectory of a workspace folder is
\* not returned, and it returns the empty list when no workspace folder is open
C11_ExactlyTheWorkspaceRoots ==
    lastOp.op = "getWorkspaceProjects"
        => /\ Range(returned) = {p \in Range(projects) : IsWorkspaceRoot(p, lastOp.roots)}
           /\ (lastOp.roots = {} => returned = << >>)

\* the records of the session file a Session was made from
LogOf(session) ==
    LET files == {file \in Range(dir[session.filePath[1]]) : file.name = session.filePath[2]}
    IN  (CHOOSE file \in files : TRUE).lines

HasLog(session) ==
    /\ session.filePath # NoFile
    /\ \E file \in Range(dir[session.filePath[1]]) : file.name = session.filePath[2]

\* content "cd <path> && <text>\n" for the paths /foo and "/my dir" and every
\* text that is more than 3 characters between two non-blank characters
CdForms ==
    {[content |-> StringContent(pre \o text \o NewlineText), text |-> text] :
        pre \in {<<"c", "d", " ", "/", "f", "o", "o", " ", "&", "&", " ">>, <<"c", "d", " ", "\"", "/", "m", "y", " ", "d", "i", "r", "\"", " ", "&", "&", " ">>},
        text \in {t \in MessageTexts : Len(t) > MinNameLength /\ trim(t) = t}}

\* C12: a Session synchronized from a log whose first user record has the
\* string content "cd <path> && <text>\n" has the name <text>, cut to its
\* first 50 characters: "cd /foo && do the thing please\n" gives exactly
\* "do the thing please"
C12_NameIsTextAfterCdPrefix ==
    lastOp.op = "sync" =>
        \A x \in Range(sessions), form \in CdForms :
            (HasLog(x) /\ firstUserMessage(LogOf(x)).found
                /\ firstUserMessage(LogOf(x)).entry.content = form.content)
            => x.name = substring0(form.text, NameLimit)

\* the content of the first user record after the cleaning: cd commands and
\* line breaks taken out, white space at both ends removed
CleanedContent(log) ==
    trim(replaceNewlines(trim(removeCdCommands(firstUserMessage(log).entry.content.text))))

\* no user record, or the first one without content, or with content of 3
\* characters or fewer after the cleaning
NoUsableContent(log) ==
    \/ ~firstUserMessage(log).found
    \/ firstUserMessage(log).entry.content.kind = "undefined"
    \/ /\ firstUserMessage(log).entry.content.kind \in {"string", "textArray"}
       /\ Len(CleanedContent(log)) <= MinNameLength

\* C13: a Session made from a log without a user record, or whose first user
\* record has no content or content of 3 characters or fewer after the
\* cleaning, is named "Session <externalSessionId>", the id being that of the
\* first record of the file
C13_FallbackName ==
    lastOp.op \in {"sync", "refresh"} =>
        \A x \in Range(sessions) :
            (HasLog(x) /\ NoUsableContent(LogOf(x)))
            => x.name = DefaultSessionName(LogOf(x)[1].sessionId)

\* a Session named by the fallback although its first user record has content
\* that is exactly 3 characters after the cleaning
C13_Witness ==
    /\ lastOp.op = "sync"
    /\ \E x \in Range(sessions) :
           /\ HasLog(x)
           /\ firstUserMessage(LogOf(x)).found
           /\ firstUserMessage(LogOf(x)).entry.content.kind = "string"
           /\ Len(firstUserMessage(LogOf(x)).entry.content.text) > MinNameLength
           /\ Len(CleanedContent(LogOf(x))) = MinNameLength
           /\ x.name = DefaultSessionName(1)

\* the persisted document holds the projects and sessions given
Persisted(d) == document.kind = "stored" /\ parse(document.text) = d

\* C14: when addProject, addSession, updateSession, deleteSession,
\* deleteProject, syncWithClaudeDirectory or refreshProjectSessions returns
\* with the projects or sessions in memory changed and no write failed, the
\* persisted document holds the projects and sessions that are in memory: no
\* operation changes memory and returns without saving
C14_ChangeInMemoryIsPersisted ==
    [][(/\ lastOp'.op \in {"other", "sync", "refresh"}
        /\ data' # data
        /\ ~raised'
        /\ lastSave' # "failed")
        => Persisted(data)']_vars

\* C15: deleteSession(id) of a Session that has a filePath removes the Session
\* from the Store and deletes its log file when the file exists; a deletion
\* that fails does not raise and does not keep the Session in the Store
C15_DeleteSessionDeletesLog ==
    [][\A sessionId \in SessionIdInputs :
        LET found == sessionIndexById(data, sessionId)
            filePath == sessions[found].filePath
        IN  (found # 0 /\ filePath # NoFile /\ DeleteSession(sessionId))
            => /\ sessionIndexById(data', sessionId) = 0
               /\ ~raised'
               /\ "unlink" \notin faults
                      => ~(\E file \in Range(dir'[filePath[1]]) : file.name = filePath[2])]_vars

\* the list holds the entity once under its id and every other entity as before
UpsertedInto(before, after, entity) ==
    /\ Cardinality({i \in DOMAIN after : after[i].id = entity.id}) = 1
    /\ \E i \in DOMAIN after : after[i] = entity
    /\ SelectSeq(after, LAMBDA x : x.id # entity.id) = SelectSeq(before, LAMBDA x : x.id # entity.id)

\* C16: addSession and addProject are upserts keyed by id: after the call the
\* Store holds exactly one entity with the id of the argument, equal to the
\* argument, whether or not that id was there before, and nothing else changed
C16_AddIsUpsert ==
    [][/\ \A session \in SessionInputs :
            AddSession(session)
                => UpsertedInto(sessions, sessions', session) /\ projects' = projects
       /\ \A project \in ProjectInputs :
            AddProject(project)
                => UpsertedInto(projects, projects', project) /\ sessions' = sessions]_vars

\* C17: loading the Store never raises: over an absent document it returns
\* the empty Store and persists it, over an unparsable document it returns the
\* empty Store and the persisted document is reset to the empty Store
C17_LoadNeverRaises ==
    [][Construct
        => /\ ~raised'
           /\ document.kind \in {"absent", "unparsable"}
                  => /\ data' = EmptyStore
                     /\ "write" \notin faults => Persisted(EmptyStore)']_vars

\* C18: when the write of a save fails the operation does not raise, the
\* document stays as it was and memory keeps the mutation: the added Project
\* or Session is in the Store, the deleted Project is not; a save that
\* succeeds leaves the document equal to memory
C18_FailedWriteKeepsMutation ==
    [][/\ lastSave' = "failed" => ~raised'
       /\ (lastSave' = "failed" /\ lastOp'.op = "other") => document' = document
       /\ lastSave' = "written" => Persisted(data)'
       /\ \A project \in ProjectInputs :
              (Constructed /\ lastSave' = "failed" /\ AddProject(project))
                  => \E i \in DOMAIN projects' : projects'[i] = project
       /\ \A session \in SessionInputs :
              (Constructed /\ lastSave' = "failed" /\ AddSession(session))
                  => \E i \in DOMAIN sessions' : sessions'[i] = session
       /\ \A projectId \in ProjectIdInputs :
              (Constructed /\ lastSave' = "failed" /\ DeleteProject(projectId))
                  => getProjectById(data', projectId) = 0]_vars

\* a Project was added, the write failed, and memory holds what the document
\* does not
C18_Witness ==
    /\ lastSave = "failed"
    /\ lastOp.op = "other"
    /\ ~raised
    /\ document.kind = "stored"
    /\ projects # << >>
    /\ parse(document.text).projects = << >>

\* the directory holds a readable log whose first record carries the id
LogPresent(sid) ==
    \E folder \in Folders : \E file \in Range(dir[folder]) :
        /\ file.readable
        /\ file.lines # << >>
        /\ file.lines[1].parses
        /\ file.lines[1].sessionId = sid

\* C19: once a Session exists for an externalSessionId, a later full resync
\* over a directory that still holds that log keeps the same Session, with
\* the same id: it is never replaced by a new Session with a different id
C19_ResyncKeepsSessionId ==
    [][(lastOp'.op = "sync" /\ dirState = "projects" /\ ~raised')
        => \A x \in Range(sessions) :
               (x.claudeSessionId # NoSid /\ LogPresent(x.claudeSessionId))
               => \A y \in Range(sessions') :
                      y.claudeSessionId = x.claudeSessionId => y.id = x.id]_vars

\* the Session comes from a log of the directory: it is not temporary and its
\* filePath is a session file whose first record carries its externalSessionId
DerivedSession(session) ==
    /\ ~session.isTemporary
    /\ session.filePath # NoFile
    /\ \E file \in Range(dir[session.filePath[1]]) :
           /\ file.name = session.filePath[2]
           /\ file.lines # << >>
           /\ file.lines[1].sessionId = session.claudeSessionId

\* the Project comes from a log of the directory: its path is the working
\* directory of a record
DerivedProject(project) ==
    \E folder \in Folders : \E file \in Range(dir[folder]) :
        \E i \in DOMAIN file.lines : file.lines[i].parses /\ file.lines[i].cwd = project.path

\* C20: a full resync over an existing ~/.claude/projects is a full replace:
\* afterwards the Store holds only Projects and Sessions derived from the
\* directory in this pass, every Session with isTemporary = false and a
\* filePath under the root; everything else that was in the Store, the
\* Sessions put there by addSession included, is gone
C20_FullResyncReplacesStore ==
    [][(lastOp'.op = "sync" /\ dirState = "projects" /\ ~raised')
        => /\ \A y \in Range(sessions') : DerivedSession(y)
           /\ \A q \in Range(projects') : DerivedProject(q)
           /\ \A x \in Range(sessions) :
                  ~DerivedSession(x) => \A y \in Range(sessions') : y.id # x.id
           /\ \A p \in Range(projects) :
                  ~DerivedProject(p) => \A q \in Range(projects') : q.id # p.id]_vars

\* a full resync over a directory with a session file has run: the Store holds
\* the Project and the Session of that file
C20_Witness ==
    /\ lastOp.op = "sync"
    /\ dirState = "projects"
    /\ ~raised
    /\ Len(projects) = 1
    /\ Len(sessions) = 1
    /\ sessions[1].filePath = <<"F1", 1>>
    /\ tombstone = 0

\* C21: a full resync is atomic for its callers: the pass runs from the clear
\* to the save with no other operation in between, so when control is back
\* with the callers the collections are never the cleared ones that were not
\* rebuilt and saved, and the pass has performed exactly one save
C21_PassIsAtomicWithOneSave ==
    [][(lastOp'.op = "sync" /\ dirState # "noClaude")
        => /\ lastSave' # "none"
           /\ ~(raised' /\ data' # data)]_vars

\* the Sessions that do not belong to the project
SessionsOfOthers(ss, projectId) == SelectSeq(ss, LAMBDA x : x.projectId # projectId)

\* C22: refreshProjectSessions(p) changes only the Sessions whose projectId is
\* p: the Projects and the Sessions of every other project are the same
\* after the call as before it
C22_RefreshTouchesOnlyItsProject ==
    [][\A projectId \in ProjectIdInputs :
        RefreshProjectSessions(projectId)
            => /\ projects' = projects
               /\ SessionsOfOthers(sessions', projectId) = SessionsOfOthers(sessions, projectId)]_vars

\* a refresh has just given a project Sessions while another project has its own
C22_Witness ==
    /\ lastOp.op = "refresh"
    /\ impl = "mono"
    /\ \E x \in Range(sessions) : \E y \in Range(sessions) :
           /\ x.projectId # y.projectId
           /\ x.filePath # NoFile
           /\ y.filePath = NoFile

\* what a project's Sessions say apart from their internal ids
Described(ss, projectId) ==
    { [claudeSessionId |-> x.claudeSessionId, name |-> x.name, createdAt |-> x.createdAt,
       lastActiveAt |-> x.lastActiveAt, filePath |-> x.filePath]
          : x \in {y \in Range(ss) : y.projectId = projectId} }

\* C23: right after a full resync, refreshProjectSessions(p) over the same
\* directory leaves p with the same externalSessionIds and, for each of them,
\* the same name, createdAt, lastActiveAt and filePath
C23_RefreshAgreesWithResync ==
    [][\A projectId \in ProjectIdInputs :
        (lastOp.op = "sync" /\ ~raised /\ RefreshProjectSessions(projectId))
            => Described(sessions', projectId) = Described(sessions, projectId)]_vars

\* the Sessions of the project in the persisted document
PersistedSessionsOf(doc, projectId) ==
    IF doc.kind = "stored" THEN getSessions(parse(doc.text), projectId) ELSE << >>

\* C24: refreshProjectSessions(p) while the external root does not exist is a
\* no-op: the Sessions of p in memory and in the persisted document are the
\* same after the call as before it, and the call does not raise
C24_RefreshWithoutRootIsNoOp ==
    [][\A projectId \in ProjectIdInputs :
        (dirState \in {"noClaude", "noProjects"} /\ RefreshProjectSessions(projectId))
            => /\ getSessions(data', projectId) = getSessions(data, projectId)
               /\ PersistedSessionsOf(document', projectId) = PersistedSessionsOf(document, projectId)
               /\ ~raised']_vars

\* the items the tree shows under the project
ChildrenOf(projectId) == ClaudeSessionProvider_getSessions(data, projectSessionLimits, projectId)

\* the children of the project are its min(n, L) Sessions with the greatest
\* createdAt, latest first, followed by one "Load more" item iff n > L
PagedChildren(projectId) ==
    \A mine \in {getSessions(data, projectId)} :
    \A children \in {ChildrenOf(projectId)} :
        LET n == Len(mine)
            L == currentLimitOf(projectSessionLimits, projectId)
            shown == IF n < L THEN n ELSE L
        IN  /\ Len(children) = shown + (IF n > L THEN 1 ELSE 0)
            /\ \A k \in 1..shown : children[k].kind = "session"
            /\ n > L => children[shown + 1] = LoadMoreItem(projectId)
            /\ \A createdAt \in {[x \in {mine[i].id : i \in DOMAIN mine} |->
                                    mine[CHOOSE i \in DOMAIN mine : mine[i].id = x].createdAt]} :
               \A shownIds \in {{children[k].sessionId : k \in 1..shown}} :
                   /\ shownIds \subseteq DOMAIN createdAt
                   /\ Cardinality(shownIds) = shown
                   /\ \A k \in 1..(shown - 1) :
                          createdAt[children[k].sessionId] >= createdAt[children[k + 1].sessionId]
                   /\ \A x \in DOMAIN createdAt \ shownIds : \A y \in shownIds :
                          createdAt[x] <= createdAt[y]

\* C25: for a project with n Sessions and limit L (50 at first, 50 more with
\* every loadMoreSessions of that project) the children in the tree are the
\* min(n, L) Sessions with the greatest createdAt in descending order,
\* followed by exactly one "Load more" item iff n > L; loadMoreSessions of
\* one project never changes the limit of another
C25_PagedChildrenAndOwnLimit ==
    /\ [](\A p \in Range(projects) :
             /\ PagedChildren(p.id)
             /\ projectSessionLimits = NoLimits
                    => currentLimitOf(projectSessionLimits, p.id) = DEFAULT_SESSIONS_LIMIT)
    /\ [][\A p \in Range(projects) :
            LoadMoreSessions(p.id)
                => /\ currentLimitOf(projectSessionLimits', p.id)
                          = currentLimitOf(projectSessionLimits, p.id) + DEFAULT_SESSIONS_LIMIT
                   /\ \A q \in Range(projects) :
                          q.id # p.id => currentLimitOf(projectSessionLimits', q.id)
                                             = currentLimitOf(projectSessionLimits, q.id)]_vars

\* one project shows 100 of its 101 Sessions and a "Load more" item after a
\* loadMoreSessions, the other still shows 50 of its 51
C25_Witness ==
    /\ Len(getSessions(data, 101)) = 2 * DEFAULT_SESSIONS_LIMIT + 1
    /\ currentLimitOf(projectSessionLimits, 101) = 2 * DEFAULT_SESSIONS_LIMIT
    /\ Len(ChildrenOf(101)) = 2 * DEFAULT_SESSIONS_LIMIT + 1
    /\ Len(getSessions(data, 102)) = DEFAULT_SESSIONS_LIMIT + 1
    /\ Len(ChildrenOf(102)) = DEFAULT_SESSIONS_LIMIT + 1
    /\ \E i \in DOMAIN sessions : \E j \in DOMAIN sessions :
           i < j /\ sessions[i].projectId = 101 /\ sessions[j].projectId = 101
                 /\ sessions[i].createdAt < sessions[j].createdAt

\* C26: after deleteSession(id) of a file-backed Session, while the external
\* tool writes nothing new, no later full resync creates a Session with the
\* same externalSessionId again
C26_DeletedSessionStaysDeleted ==
    [][lastOp'.op = "sync" => \A x \in Range(sessions') : x.claudeSessionId \notin deleted]_vars

\* C27: when the user confirms the deletion of a Session shown in the tree,
\* getSessions returns no Session with that externalSessionId any more, also
\* when a full resync ran between the rendering of the item and the
\* confirmation
C27_ConfirmedDeletionRemovesSession ==
    [][(item.claudeSessionId # NoSid /\ ConfirmDelete)
        => \A x \in Range(sessions') : x.claudeSessionId # item.claudeSessionId]_vars

\* the calls of the Store the claim names
StoreCalls == {"getSessions", "getProjects", "addProject", "addSession", "deleteProject"}

\* C28: after load has returned, whatever the store file held (absent,
\* unparsable, or valid JSON of any shape such as null, {} or an array),
\* the data in memory has its projects and sessions lists, so that a later
\* getSessions, getProjects, addSession or deleteProject does not raise
C28_LoadedDataHasItsLists ==
    /\ held = "store"
    /\ lastOp.op \in StoreCalls => ~raised

\* C29: updates of the providers are not lost when calls interleave: after
\* overlapping addOrUpdateServiceProvider calls for different providers
\* have all finished, the stored serviceProviders holds the effect of each
C29_NoProviderUpdateIsLost ==
    pendingUpdates = << >>
        => \A id \in ProviderIds :
               effects[id] # NoProvider => \E i \in DOMAIN serviceProviders :
                                              serviceProviders[i] = effects[id]

====
